---- MODULE Spec2Model ----
(***************************************************************************)
(* Model of bin/classify_consensus_probabilistic.py: the EM-based          *)
(* probabilistic consensus classifier (extractors, merger, EM engine,      *)
(* decider).                                                               *)
(*                                                                         *)
(* Numbers.  The program computes with Python floats.  The model computes  *)
(* with exact non-negative rationals, so that a sum, a quotient or a       *)
(* comparison is decided by the arithmetic the code writes and not by the  *)
(* model's choice of a rounding.  TLC's integers are 32 bits wide and the  *)
(* k-th EM iterate holds k-th powers of the likelihoods, so naturals are   *)
(* kept as little-endian sequences of base-10000 limbs (<<>> is zero).     *)
(***************************************************************************)
EXTENDS Integers, Sequences, FiniteSets, TLC

VARIABLES
    pc,                     \* position in main() / run_em_algorithm()
    argv,                   \* --sample-id and --cluster-id as given on the command line
    files,                  \* the three optional classifier files of the request
    args,                   \* parse_args(): thresholds, and the identifiers once parsed
    all_candidates,         \* main(): raw candidates, in extraction order
    warnings,               \* "Warning: Could not parse ..." lines on stderr
    candidates,             \* merged candidates (merge_candidates' result)
    max_iterations,         \* run_em_algorithm argument
    convergence_threshold,  \* run_em_algorithm argument
    priors,                 \* run_em_algorithm local
    posteriors,             \* run_em_algorithm local (meaningful when posteriors_bound)
    posteriors_bound,       \* whether the local 'posteriors' has been assigned
    iteration,              \* number of loop bodies completed
    last_change,            \* max_change of the last completed loop body
    em_result,              \* (final_posteriors, iterations, converged) once returned
    raised,                 \* the exception that ended the run, or "none"
    novelty_threshold,      \* determine_classification argument
    result,                 \* (classification, is_novel) once returned
    outputs                 \* the three files write_outputs creates

vars == <<pc, argv, files, args, all_candidates, warnings, candidates, max_iterations,
          convergence_threshold, priors, posteriors, posteriors_bound, iteration,
          last_change, em_result, raised, novelty_threshold, result, outputs>>

-----------------------------------------------------------------------------
(* Natural numbers of any size: little-endian limbs, no high zero limb.    *)

Base == 100 * 100

Max(S) == CHOOSE m \in S : \A x \in S : x <= m

\* a without its high zero limbs
Norm(a) == LET nz == {i \in 1..Len(a) : a[i] # 0}
           IN  IF nz = {} THEN <<>> ELSE SubSeq(a, 1, Max(nz))

\* A machine integer n >= 0 as limbs
BN(n) == Norm(<<n % Base, (n \div Base) % Base, n \div (Base * Base)>>)

Limb(a, i) == IF i <= Len(a) THEN a[i] ELSE 0

\* The carry into limb i of the limb sums s (each below 2 * Base - 1): a lower
\* limb overflows and every limb between it and i is full
CarryInto(s, i) ==
    IF \E j \in 1..(i - 1) :
          s[j] >= Base /\ \A k \in (j + 1)..(i - 1) : s[k] = Base - 1
    THEN 1 ELSE 0

BAdd(a, b) ==
    LET n == IF Len(a) > Len(b) THEN Len(a) ELSE Len(b)
        s == [i \in 1..n |-> Limb(a, i) + Limb(b, i)] \o <<0>>
    IN  Norm([i \in 1..(n + 1) |-> (s[i] + CarryInto(s, i)) % Base])

\* The borrow out of the limbs below i of the limb differences d
BorrowInto(d, i) ==
    IF \E j \in 1..(i - 1) :
          d[j] < 0 /\ \A k \in (j + 1)..(i - 1) : d[k] = 0
    THEN 1 ELSE 0

\* a - b for a >= b
BSub(a, b) ==
    LET d == [i \in 1..Len(a) |-> a[i] - Limb(b, i)] \o <<>>
    IN  Norm([i \in 1..Len(a) |-> (d[i] - BorrowInto(d, i) + Base) % Base])

\* -1, 0, 1 as a < b, a = b, a > b: by length, then by the highest limb that
\* differs
BCmp(a, b) ==
    IF Len(a) < Len(b) THEN -1
    ELSE IF Len(a) > Len(b) THEN 1
    ELSE LET diff == {i \in 1..Len(a) : a[i] # b[i]}
         IN  IF diff = {} THEN 0
             ELSE IF a[Max(diff)] < b[Max(diff)] THEN -1 ELSE 1

BLess(a, b) == BCmp(a, b) = -1
BLeq(a, b)  == BCmp(a, b) # 1

\* |a - b|
BAbsDiff(a, b) == IF BLess(a, b) THEN BSub(b, a) ELSE BSub(a, b)

\* a * m for one limb m: the low halves of the limb products plus the high
\* halves one limb up
MulLimb(a, m) ==
    BAdd([i \in 1..Len(a) |-> (a[i] * m) % Base] \o <<>>,
         <<0>> \o [i \in 1..Len(a) |-> (a[i] * m) \div Base])

\* a * Base^k
Shift(a, k) == IF a = <<>> THEN <<>> ELSE [i \in 1..k |-> 0] \o a

\* a times the limbs lo..hi of b, each at its place
RECURSIVE MulRange(_, _, _, _)
MulRange(a, b, lo, hi) ==
    IF lo = hi THEN Shift(MulLimb(a, b[lo]), lo - 1)
    ELSE LET mid == (lo + hi) \div 2
         IN  BAdd(MulRange(a, b, lo, mid), MulRange(a, b, mid + 1, hi))

BMul(a, b) == IF a = <<>> \/ b = <<>> THEN <<>>
              ELSE IF Len(a) < Len(b) THEN MulRange(b, a, 1, Len(a))
              ELSE MulRange(a, b, 1, Len(b))

\* The sum of the numbers s[lo..hi]
RECURSIVE SumRange(_, _, _)
SumRange(s, lo, hi) ==
    IF lo > hi THEN <<>>
    ELSE IF lo = hi THEN s[lo]
    ELSE LET mid == (lo + hi) \div 2
         IN  BAdd(SumRange(s, lo, mid), SumRange(s, mid + 1, hi))

BSum(s) == SumRange(s, 1, Len(s))

-----------------------------------------------------------------------------
(* Small rationals n/d (d > 0), kept in lowest terms: the numeric fields of *)
(* the input rows, the likelihoods derived from them and the thresholds.   *)

RECURSIVE GCD(_, _)
GCD(a, b) == IF b = 0 THEN a ELSE GCD(b, a % b)

Abs(x) == IF x < 0 THEN -x ELSE x

Q(n, d) == LET g == GCD(Abs(n), d) IN [n |-> n \div g, d |-> d \div g]

QAdd(x, y) == Q(x.n * y.d + y.n * x.d, x.d * y.d)
QMul(x, y) == Q(x.n * y.n, x.d * y.d)
\* x / y for y > 0
QDiv(x, y) == Q(x.n * y.d, x.d * y.n)
QLess(x, y) == x.n * y.d < y.n * x.d
QGeq(x, y) == ~QLess(x, y)

RECURSIVE QSum(_)
QSum(s) == IF s = <<>> THEN Q(0, 1) ELSE QAdd(Head(s), QSum(Tail(s)))

LCM(a, b) == (a \div GCD(a, b)) * b

(* A probability table (the dicts priors / posteriors / unnormalized_       *)
(* posteriors): entry i is num[i] / den, one denominator for the whole      *)
(* table.  Python's keys 0..N-1 are the indices 1..N here.                  *)
(* A single value is [n |-> BigNat, d |-> BigNat].                          *)

EmptyTable == [num |-> <<>>, den |-> BN(1)]

Entry(t, i) == [n |-> t.num[i], d |-> t.den]

\* x < q and x >= q for a value x >= 0 and a small rational q of either sign
RLess(x, q) == /\ BLess(BMul(x.n, BN(q.d)), BMul(BN(Abs(q.n)), x.d))
               /\ q.n > 0
RGeq(x, q) == ~RLess(x, q)
\* x > q, for q >= 0
RGreater(x, q) == BLess(BMul(BN(q.n), x.d), BMul(x.n, BN(q.d)))

\* Sum of the entries of a table, as a value
TableSum(t) == [n |-> BSum(t.num), d |-> t.den]

-----------------------------------------------------------------------------
(* Candidates are Python dicts: records whose domain is the dict's keys.   *)

None == "<None>"

\* dict.get(k): the value, or None when the key is absent
Get(c, k) == IF k \in DOMAIN c THEN c[k] ELSE None

\* Python truthiness of an optional string
Falsy(v) == v = None \/ v = ""

-----------------------------------------------------------------------------
(* Candidate extractors.  A file is [status, rows]; a row is the list of   *)
(* its fields (line.strip().split('\t'), or the csv reader's row).         *)

\* float(s) on the field texts of the model's rows; any other text raises
\* ValueError
FloatOf ==
    ("-1" :> Q(-1, 1)) @@
    ("0" :> Q(0, 1)) @@ ("0.0" :> Q(0, 1)) @@ ("0.05" :> Q(1, 20)) @@
    ("0.1" :> Q(1, 10)) @@ ("0.5" :> Q(1, 2)) @@ ("0.8" :> Q(4, 5)) @@
    ("69.9" :> Q(699, 10)) @@ ("70" :> Q(70, 1)) @@
    ("79.9" :> Q(799, 10)) @@ ("80" :> Q(80, 1)) @@ ("90" :> Q(90, 1)) @@
    ("96" :> Q(96, 1)) @@ ("100" :> Q(100, 1)) @@ ("800" :> Q(800, 1)) @@
    ("900" :> Q(900, 1)) @@ ("1500" :> Q(1500, 1)) @@ ("2700" :> Q(2700, 1))

IsFloat(s) == s \in DOMAIN FloatOf

\* int(s); any other text raises ValueError
IntOf ==
    ("0" :> 0) @@ ("2" :> 2) @@ ("3" :> 3) @@ ("7" :> 7) @@ ("007" :> 7) @@
    ("50" :> 50) @@ ("90" :> 90) @@
    ("99" :> 99) @@ ("100" :> 100) @@ ("1200" :> 1200) @@ ("1500" :> 1500)

IsInt(s) == s \in DOMAIN IntOf

\* Path(p).stem
StemOf ==
    ("refs/GCF_000005845.fna" :> "GCF_000005845") @@
    ("refs/GCF_000013425.fna" :> "GCF_000013425") @@
    ("refs/562.fna" :> "562")

\* One line of parse_kraken2's loop.  [candidates, raised]: a ValueError of
\* float() leaves the loop (it is caught outside the loop).
KrakenLine(parts, min_confidence, cands) ==
    IF Len(parts) < 5 THEN [candidates |-> cands, raised |-> FALSE]
    ELSE IF parts[4] # "" /\ ~IsFloat(parts[4])
    THEN [candidates |-> cands, raised |-> TRUE]
    ELSE LET classified == parts[1]
             taxid      == parts[3]
             confidence == IF parts[4] # "" THEN FloatOf[parts[4]] ELSE Q(0, 1)
             taxname    == parts[5]
         IN  [candidates |->
                 IF classified = "C" /\ QGeq(confidence, min_confidence)
                 THEN Append(cands, [source |-> "kraken2", taxid |-> taxid,
                                     name |-> taxname, confidence |-> confidence,
                                     likelihood |-> confidence])
                 ELSE cands,
              raised |-> FALSE]

RECURSIVE KrakenLoop(_, _, _, _)
KrakenLoop(rows, i, min_confidence, cands) ==
    IF i > Len(rows) THEN [candidates |-> cands, raised |-> FALSE]
    ELSE LET r == KrakenLine(rows[i], min_confidence, cands)
         IN  IF r.raised THEN r ELSE KrakenLoop(rows, i + 1, min_confidence, r.candidates)

\* parse_kraken2 -> [candidates, warned]
parse_kraken2(file, min_confidence) ==
    IF file.status \in {"none", "missing"}
    THEN [candidates |-> <<>>, warned |-> FALSE]
    ELSE IF file.status = "unreadable"
    THEN [candidates |-> <<>>, warned |-> TRUE]
    ELSE LET r == KrakenLoop(file.rows, 1, min_confidence, <<>>)
         IN  [candidates |-> r.candidates, warned |-> r.raised]

\* identity / 100.0 * (1.0 / (1.0 + evalue))
BlastLikelihood(identity, evalue) ==
    QMul(QDiv(identity, Q(100, 1)), QDiv(Q(1, 1), QAdd(Q(1, 1), evalue)))

\* One row of parse_blast's loop.  [candidates, raised]: the inner try skips
\* a row whose field does not convert (ValueError); the ZeroDivisionError of
\* 1.0 / (1.0 + evalue) at evalue = -1 is not in the inner except and leaves
\* the loop.
BlastRow(row, min_identity, cands) ==
    IF Len(row) < 6 THEN [candidates |-> cands, raised |-> FALSE]
    ELSE IF ~(IsFloat(row[3]) /\ IsInt(row[4]) /\ IsFloat(row[5]) /\ IsFloat(row[6]))
    THEN [candidates |-> cands, raised |-> FALSE]
    ELSE LET evalue   == FloatOf[row[3]]
             score    == FloatOf[row[5]]
             identity == FloatOf[row[6]]
         IN  IF ~QGeq(identity, min_identity)
             THEN [candidates |-> cands, raised |-> FALSE]
             ELSE IF QAdd(Q(1, 1), evalue).n = 0
             THEN [candidates |-> cands, raised |-> TRUE]
             ELSE [candidates |->
                      Append(cands, [source |-> "blast", taxid |-> row[1],
                                     name |-> row[2], identity |-> identity,
                                     evalue |-> evalue, score |-> score,
                                     likelihood |-> BlastLikelihood(identity, evalue)]),
                   raised |-> FALSE]

RECURSIVE BlastLoop(_, _, _, _)
BlastLoop(rows, i, min_identity, cands) ==
    IF i > Len(rows) THEN [candidates |-> cands, raised |-> FALSE]
    ELSE LET r == BlastRow(rows[i], min_identity, cands)
         IN  IF r.raised THEN r ELSE BlastLoop(rows, i + 1, min_identity, r.candidates)

parse_blast(file, min_identity) ==
    IF file.status \in {"none", "missing"}
    THEN [candidates |-> <<>>, warned |-> FALSE]
    ELSE IF file.status = "unreadable"
    THEN [candidates |-> <<>>, warned |-> TRUE]
    ELSE LET r == BlastLoop(file.rows, 1, min_identity, <<>>)
         IN  [candidates |-> r.candidates, warned |-> r.raised]

\* FastaniLikelihood without the coverage factor
FastaniLikelihoodAniOnly(ani, coverage) == QDiv(ani, Q(100, 1))

\* (ani / 100.0) * coverage
FastaniLikelihood(ani, coverage) == QMul(QDiv(ani, Q(100, 1)), coverage)

\* One line of parse_fastani's loop: ValueError and ZeroDivisionError skip
\* the line.
FastaniLine(parts, min_similarity, cands) ==
    IF Len(parts) < 5 THEN cands
    ELSE IF ~(IsFloat(parts[3]) /\ IsInt(parts[4]) /\ IsInt(parts[5])) THEN cands
    ELSE IF IntOf[parts[5]] = 0 THEN cands
    ELSE LET reference == StemOf[parts[1]]
             ani       == FloatOf[parts[3]]
             coverage  == Q(IntOf[parts[4]], IntOf[parts[5]])
         IN  IF QGeq(ani, min_similarity)
             THEN Append(cands, [source |-> "fastani", reference |-> reference,
                                 name |-> reference, ani |-> ani,
                                 coverage |-> QMul(coverage, Q(100, 1)),
                                 likelihood |-> FastaniLikelihood(ani, coverage)])
             ELSE cands

RECURSIVE FastaniLoop(_, _, _, _)
FastaniLoop(rows, i, min_similarity, cands) ==
    IF i > Len(rows) THEN cands
    ELSE FastaniLoop(rows, i + 1, min_similarity,
                     FastaniLine(rows[i], min_similarity, cands))

parse_fastani(file, min_similarity) ==
    IF file.status \in {"none", "missing"}
    THEN [candidates |-> <<>>, warned |-> FALSE]
    ELSE IF file.status = "unreadable"
    THEN [candidates |-> <<>>, warned |-> TRUE]
    ELSE [candidates |-> FastaniLoop(file.rows, 1, min_similarity, <<>>),
          warned |-> FALSE]

-----------------------------------------------------------------------------
(* Candidate merger                                                        *)

\* a or b or c, on optional strings
KeyOf(candidate) ==
    IF ~Falsy(Get(candidate, "taxid")) THEN candidate.taxid
    ELSE IF ~Falsy(Get(candidate, "reference")) THEN candidate.reference
    ELSE Get(candidate, "name")

\* taxon_map is an insertion-ordered dict: a sequence of [key, sources,
\* likelihoods, metadata] in order of first insertion.  'metadata' refers to
\* one of the input dicts: metadata_at is its position in the input list,
\* metadata its content.
IndexOfKey(taxon_map, key) ==
    IF \E k \in 1..Len(taxon_map) : taxon_map[k].key = key
    THEN CHOOSE k \in 1..Len(taxon_map) : taxon_map[k].key = key
    ELSE 0

\* MergeOne replacing the metadata on an equal likelihood as well
MergeOneLastMaximum(taxon_map, cs, i) ==
    LET candidate == cs[i]
        key == KeyOf(candidate)
        at  == IndexOfKey(taxon_map, key)
        tm  == IF at = 0
               THEN Append(taxon_map, [key |-> key, sources |-> <<>>,
                                       likelihoods |-> <<>>, has_metadata |-> FALSE,
                                       metadata_at |-> i,
                                       metadata |-> candidate])
               ELSE taxon_map
        k   == IF at = 0 THEN Len(tm) ELSE at
        e   == tm[k]
    IN  IF Falsy(key) THEN taxon_map
        ELSE [tm EXCEPT ![k] =
                 [key |-> e.key,
                  sources |-> Append(e.sources, candidate.source),
                  likelihoods |-> Append(e.likelihoods, candidate.likelihood),
                  has_metadata |-> TRUE,
                  metadata_at |-> IF QLess(candidate.likelihood, e.metadata.likelihood)
                                  THEN e.metadata_at ELSE i,
                  metadata |-> IF QLess(candidate.likelihood, e.metadata.likelihood)
                               THEN e.metadata ELSE candidate]]

\* The body of merge_candidates' first loop, for one candidate
MergeOne(taxon_map, cs, i) ==
    LET candidate == cs[i]
        key == KeyOf(candidate)
        at  == IndexOfKey(taxon_map, key)
        tm  == IF at = 0
               THEN Append(taxon_map, [key |-> key, sources |-> <<>>,
                                       likelihoods |-> <<>>, has_metadata |-> FALSE,
                                       metadata_at |-> i,
                                       metadata |-> candidate])
               ELSE taxon_map
        k   == IF at = 0 THEN Len(tm) ELSE at
        e   == tm[k]
        replace == \/ ~e.has_metadata
                   \/ QLess(e.metadata.likelihood, candidate.likelihood)
    IN  IF Falsy(key) THEN taxon_map
        ELSE [tm EXCEPT ![k] =
                 [key |-> e.key,
                  sources |-> Append(e.sources, candidate.source),
                  likelihoods |-> Append(e.likelihoods, candidate.likelihood),
                  has_metadata |-> TRUE,
                  metadata_at |-> IF replace THEN i ELSE e.metadata_at,
                  metadata |-> IF replace THEN candidate ELSE e.metadata]]

RECURSIVE MergeLoop(_, _, _)
MergeLoop(taxon_map, cs, i) ==
    IF i > Len(cs) THEN taxon_map
    ELSE MergeLoop(MergeOne(taxon_map, cs, i), cs, i + 1)

\* MergedCandidate with the highest likelihood for the mean
MergedCandidateMax(data) ==
    [merged_likelihood |->
        CHOOSE x \in {data.likelihoods[i] : i \in 1..Len(data.likelihoods)} :
            \A i \in 1..Len(data.likelihoods) : ~QLess(x, data.likelihoods[i]),
     num_sources |-> Len(data.sources),
     all_sources |-> data.sources] @@ data.metadata

\* The merged candidate of one taxon_map entry (second loop of merge_candidates)
MergedCandidate(data) ==
    [merged_likelihood |-> QDiv(QSum(data.likelihoods), Q(Len(data.likelihoods), 1)),
     num_sources |-> Len(data.sources),
     all_sources |-> data.sources] @@ data.metadata

\* WrittenObject for merged = data['metadata']: the input dict itself
WrittenObjectAliased(data) == data.metadata_at

\* The dict that receives merged_likelihood, num_sources and all_sources:
\* merged = data['metadata'].copy() is a new dict (0), not the input dict at
\* data.metadata_at
WrittenObject(data) == 0

\* The input list once merge_candidates has returned: an input dict the
\* second loop wrote to holds the three merged fields
InputsAfterMerge(cs) ==
    LET taxon_map == MergeLoop(<<>>, cs, 1)
        Writers(i) == {k \in 1..Len(taxon_map) : WrittenObject(taxon_map[k]) = i}
    IN  [i \in 1..Len(cs) |->
            IF Writers(i) = {} THEN cs[i]
            ELSE MergedCandidate(taxon_map[CHOOSE k \in Writers(i) : TRUE])]

\* merge_candidates emitting the entries of taxon_map last to first
merge_candidates_reversed(cs) ==
    LET taxon_map == MergeLoop(<<>>, cs, 1)
    IN  [k \in 1..Len(taxon_map) |->
            MergedCandidate(taxon_map[Len(taxon_map) + 1 - k])]

merge_candidates(cs) ==
    LET taxon_map == MergeLoop(<<>>, cs, 1)
    IN  [k \in 1..Len(taxon_map) |-> MergedCandidate(taxon_map[k])]

-----------------------------------------------------------------------------
(* EM engine                                                               *)

initialize_priors(cands) ==
    IF cands = <<>> THEN EmptyTable
    ELSE [num |-> [i \in 1..Len(cands) |-> BN(1)], den |-> BN(Len(cands))]

\* candidate.get('merged_likelihood', candidate.get('likelihood', 0.0))
LikelihoodOf(candidate) ==
    IF "merged_likelihood" \in DOMAIN candidate THEN candidate.merged_likelihood
    ELSE IF "likelihood" \in DOMAIN candidate THEN candidate.likelihood
    ELSE Q(0, 1)

RECURSIVE LCMOfDens(_, _)
LCMOfDens(cands, i) ==
    IF i > Len(cands) THEN 1
    ELSE LCM(LikelihoodOf(cands[i]).d, LCMOfDens(cands, i + 1))

\* Unnormalized with the prior left out of the product
UnnormalizedNoPrior(cands, prior) ==
    LET ld == LCMOfDens(cands, 1)
    IN  [num |-> [i \in 1..Len(cands) |->
                     BN(LikelihoodOf(cands[i]).n * (ld \div LikelihoodOf(cands[i]).d))],
         den |-> BN(ld)]

\* Unnormalized with 1 - likelihood (over the common denominator) for the
\* likelihood
UnnormalizedInverted(cands, prior) ==
    LET ld == LCMOfDens(cands, 1)
    IN  [num |-> [i \in 1..Len(cands) |->
                     BMul(BN(Abs(ld - LikelihoodOf(cands[i]).n
                                        * (ld \div LikelihoodOf(cands[i]).d))),
                          prior.num[i])],
         den |-> BMul(BN(ld), prior.den)]

\* E-step products likelihood * prior, as a table: the likelihoods are
\* brought to their common denominator ld, so entry i is
\* (ln[i] * prior.num[i]) / (ld * prior.den).
Unnormalized(cands, prior) ==
    LET ld == LCMOfDens(cands, 1)
    IN  [num |-> [i \in 1..Len(cands) |->
                     BMul(BN(LikelihoodOf(cands[i]).n * (ld \div LikelihoodOf(cands[i]).d)),
                          prior.num[i])],
         den |-> BMul(BN(ld), prior.den)]

\* Uniform with 1.0 for 1.0 / len(candidates)
UniformOnes(n) == [num |-> [i \in 1..n |-> BN(1)], den |-> BN(1)]

\* {i: 1.0 / len(candidates)}
Uniform(n) == [num |-> [i \in 1..n |-> BN(1)], den |-> BN(n)]

\* Normalize with the division by total forgotten
NormalizeNoTotal(un) == [num |-> un.num, den |-> un.den]

\* {i: p / total}: (num[i] / den) / (sum / den) = num[i] / sum
Normalize(un) == [num |-> un.num, den |-> BSum(un.num)]

\* em_step returns (posteriors, new_priors) with new_priors = posteriors.copy()
em_step(cands, prior) ==
    LET un    == Unnormalized(cands, prior)
        total == TableSum(un)
    IN  IF total.n = <<>> THEN Uniform(Len(cands)) ELSE Normalize(un)

\* max(abs(new_priors[i] - priors[i]) for i in range(len(candidates))):
\* |a/A - b/B| = |a*B - b*A| / (A*B)
ChangeNum(new, old, i) == BAbsDiff(BMul(new.num[i], old.den), BMul(old.num[i], new.den))

RECURSIVE MaxNum(_, _, _, _)
MaxNum(new, old, i, best) ==
    IF i > Len(new.num) THEN best
    ELSE LET c == ChangeNum(new, old, i)
         IN  IF BLess(best, c) THEN MaxNum(new, old, i + 1, c)
                               ELSE MaxNum(new, old, i + 1, best)

MaxChange(new, old) == [n |-> MaxNum(new, old, 1, <<>>), d |-> BMul(new.den, old.den)]

-----------------------------------------------------------------------------
(* Classification decider                                                  *)

\* MaxScan keeping the last of several equal maxima
RECURSIVE MaxScanLast(_, _, _)
MaxScanLast(post, i, best) ==
    IF i > Len(post.num) THEN best
    ELSE IF BLeq(post.num[best], post.num[i]) THEN MaxScanLast(post, i + 1, i)
                                              ELSE MaxScanLast(post, i + 1, best)

\* max(posteriors.items(), key=lambda x: x[1])[0]: a left-to-right scan that
\* replaces the best only by a strictly greater value
RECURSIVE MaxScan(_, _, _)
MaxScan(post, i, best) ==
    IF i > Len(post.num) THEN best
    ELSE IF BLess(post.num[best], post.num[i]) THEN MaxScan(post, i + 1, i)
                                               ELSE MaxScan(post, i + 1, best)

BestIdx(post) == MaxScan(post, 2, 1)

\* ConfidenceLevel with the 'high' bound exclusive
ConfidenceLevelStrict(best_posterior, nt) ==
    IF RGreater(best_posterior, Q(9, 10)) THEN "high"
    ELSE IF RGeq(best_posterior, Q(7, 10)) THEN "medium"
    ELSE IF RGeq(best_posterior, nt) THEN "low"
    ELSE "very_low_novel"

\* ConfidenceLevel with the default novelty threshold as the 'low' bound
ConfidenceLevelDefault(best_posterior, nt) ==
    IF RGeq(best_posterior, Q(9, 10)) THEN "high"
    ELSE IF RGeq(best_posterior, Q(7, 10)) THEN "medium"
    ELSE IF RGeq(best_posterior, Q(1, 2)) THEN "low"
    ELSE "very_low_novel"

ConfidenceLevel(best_posterior, nt) ==
    IF RGeq(best_posterior, Q(9, 10)) THEN "high"
    ELSE IF RGeq(best_posterior, Q(7, 10)) THEN "medium"
    ELSE IF RGeq(best_posterior, nt) THEN "low"
    ELSE "very_low_novel"

\* IsNovel with <= for <
IsNovelLeq(best_posterior, nt) == ~RGreater(best_posterior, nt)

\* IsNovel against the default threshold, whatever was passed
IsNovelDefault(best_posterior, nt) == RLess(best_posterior, Q(1, 2))

IsNovel(best_posterior, nt) == RLess(best_posterior, nt)

\* Unclassified without the novelty flag and the reason
UnclassifiedBare ==
    [method |-> "EM_probabilistic", classification |-> "Unclassified",
     confidence |-> [n |-> <<>>, d |-> BN(1)], is_novel |-> FALSE]

Unclassified ==
    [method |-> "EM_probabilistic", classification |-> "Unclassified",
     confidence |-> [n |-> <<>>, d |-> BN(1)], is_novel |-> TRUE,
     reason |-> "No candidate taxa identified"]

determine_classification(cands, post, nt) ==
    IF cands = <<>> \/ post.num = <<>>
    THEN [classification |-> Unclassified, is_novel |-> TRUE, best_idx |-> 0]
    ELSE LET best_idx       == BestIdx(post)
             best_candidate == cands[best_idx]
             best_posterior == Entry(post, best_idx)
             is_novel       == IsNovel(best_posterior, nt)
         IN  [classification |->
                 [method |-> "EM_probabilistic",
                  taxid |-> Get(best_candidate, "taxid"),
                  name |-> Get(best_candidate, "name"),
                  reference |-> Get(best_candidate, "reference"),
                  confidence |-> best_posterior,
                  confidence_level |-> ConfidenceLevel(best_posterior, nt),
                  is_novel |-> is_novel,
                  source |-> IF "all_sources" \in DOMAIN best_candidate
                             THEN best_candidate.all_sources
                             ELSE <<Get(best_candidate, "source")>>,
                  num_sources |-> IF "num_sources" \in DOMAIN best_candidate
                                  THEN best_candidate.num_sources ELSE 1,
                  identity |-> Get(best_candidate, "identity"),
                  ani |-> Get(best_candidate, "ani"),
                  likelihood |-> LikelihoodOf(best_candidate)],
              is_novel |-> is_novel, best_idx |-> best_idx]

-----------------------------------------------------------------------------
(* run_em_algorithm's three return values                                  *)

EmptyReturn == [posteriors |-> EmptyTable, iterations |-> 0, converged |-> FALSE]

\* ConvergedReturn counting one iteration too many
ConvergedReturnOffByOne(post, done) ==
    [posteriors |-> post, iterations |-> done + 2, converged |-> TRUE]

\* return posteriors, iteration + 1, True   (done = loop bodies completed before)
ConvergedReturn(post, done) ==
    [posteriors |-> post, iterations |-> done + 1, converged |-> TRUE]

\* CapReturn reporting convergence
CapReturnConverged(post, max_iter) ==
    [posteriors |-> post, iterations |-> max_iter, converged |-> TRUE]

\* return posteriors, max_iterations, False
CapReturn(post, max_iter) ==
    [posteriors |-> post, iterations |-> max_iter, converged |-> FALSE]

\* new_priors = posteriors.copy(): the table as a new dict holding its values
Copy(t) == [num |-> t.num \o <<>>, den |-> t.den]

\* The for loop of run_em_algorithm from its body number k + 1 on
\* (k < max_iter)
RECURSIVE EmLoop(_, _, _, _, _)
EmLoop(cands, prior, k, max_iter, threshold) ==
    LET post == Copy(em_step(cands, prior))
    IN  IF RLess(MaxChange(post, prior), threshold) THEN ConvergedReturn(post, k)
        ELSE IF k + 1 >= max_iter THEN CapReturn(post, max_iter)
        ELSE EmLoop(cands, post, k + 1, max_iter, threshold)

\* run_em_algorithm as one function of its arguments: [raised, returned]
run_em_algorithm(cands, max_iter, threshold) ==
    IF cands = <<>> THEN [raised |-> "none", returned |-> EmptyReturn]
    ELSE IF max_iter <= 0
    THEN [raised |-> "UnboundLocalError", returned |-> EmptyReturn]
    ELSE [raised |-> "none",
          returned |-> EmLoop(cands, initialize_priors(cands), 0, max_iter, threshold)]

-----------------------------------------------------------------------------
(* Output writers.  A text file is the list of its lines, the table the    *)
(* list of its rows, the report the value json.dump serialises.            *)

\* str() of a bool
BoolText(b) == IF b THEN "True" ELSE "False"

\* ','.join(sources)
RECURSIVE Join(_)
Join(sources) ==
    IF sources = <<>> THEN ""
    ELSE IF Len(sources) = 1 THEN sources[1]
    ELSE sources[1] \o "," \o Join(Tail(sources))

\* The largest k in lo..hi with k * b <= a
RECURSIVE FloorDiv(_, _, _, _)
FloorDiv(a, b, lo, hi) ==
    IF lo >= hi THEN lo
    ELSE LET mid == (lo + hi + 1) \div 2
         IN  IF BLeq(BMul(BN(mid), b), a) THEN FloorDiv(a, b, mid, hi)
             ELSE FloorDiv(a, b, lo, mid - 1)

\* The decimal digits of k, at least w of them
RECURSIVE Digits(_, _)
Digits(k, w) ==
    IF w <= 1 /\ k < 10 THEN ToString(k)
    ELSE Digits(k \div 10, w - 1) \o ToString(k % 10)

\* f"{x:.4f}" for a value 0 <= x <= 1: the nearest number of ten-thousandths,
\* the even one when two are equally near
Fixed4(x) ==
    LET twice == BMul(BN(2), x.d)
        a     == BAdd(BMul(BMul(BN(2), x.n), BN(10000)), x.d)
        up    == FloorDiv(a, twice, 0, 10000)
        k     == IF BMul(BN(up), twice) = a /\ up % 2 = 1 THEN up - 1 ELSE up
    IN  ToString(k \div 10000) \o "." \o Digits(k % 10000, 4)

\* f"{q:.1f}" for a small rational q >= 0
Fixed1(q) ==
    LET up == (2 * q.n * 10 + q.d) \div (2 * q.d)
        k  == IF up * 2 * q.d = 2 * q.n * 10 + q.d /\ up % 2 = 1 THEN up - 1 ELSE up
    IN  Digits(k \div 10, 1) \o "." \o ToString(k % 10)

\* classification.get('source', default), the joined source list
SourceText(classification, default) ==
    IF "source" \in DOMAIN classification THEN Join(classification.source) ELSE default

\* candidate.get('all_sources', candidate.get('source')) in an f-string
CandidateSources(candidate) ==
    IF "all_sources" \in DOMAIN candidate THEN Join(candidate.all_sources)
    ELSE Get(candidate, "source")

\* dict.get(k, default)
GetOr(c, k, default) == IF k \in DOMAIN c THEN c[k] ELSE default

\* What csv.writer writes for a value: None is the empty field
CsvField(v) == IF v = None THEN "" ELSE v

\* What an f-string writes for a string or None
FText(v) == IF v = None THEN "None" ELSE v

CsvHeader ==
    <<"Sample", "Cluster", "Method", "Classification", "Confidence",
      "Confidence_Level", "Is_Novel", "TaxID", "Sources">>

\* write_csv: the header and one row
write_csv(results) ==
    LET classification == results.classification
    IN  <<CsvHeader,
          <<results.meta.id,
            ToString(results.meta.cluster_id),
            GetOr(classification, "method", "EM_probabilistic"),
            CsvField(GetOr(classification, "name",
                           GetOr(classification, "classification", "Unknown"))),
            Fixed4(classification.confidence),
            GetOr(classification, "confidence_level", "unknown"),
            BoolText(GetOr(classification, "is_novel", TRUE)),
            CsvField(GetOr(classification, "taxid", "")),
            SourceText(classification, "")>> >>

\* write_json: the document handed to json.dump
write_json(results, all_cands, post) ==
    <<[meta |-> results.meta,
       classification |-> results.classification,
       em_algorithm |-> results.em_stats,
       all_candidates |->
           [i \in 1..Len(all_cands) |->
               [posterior_probability |->
                   IF i <= Len(post.num) THEN Entry(post, i)
                   ELSE [n |-> <<>>, d |-> BN(1)]] @@ all_cands[i]],
       num_candidates |-> Len(all_cands)]>>

\* Python truthiness of an optional number
FalsyNumber(v) == IF ToString(v) = ToString(None) THEN TRUE ELSE v.n = 0

\* The optional identity and ANI lines of a dict
MetricLines(c, indent) ==
    (IF FalsyNumber(Get(c, "identity")) THEN <<>>
     ELSE <<indent \o "BLAST Identity: " \o Fixed1(c.identity) \o "%">>)
    \o (IF FalsyNumber(Get(c, "ani")) THEN <<>>
        ELSE <<indent \o "FastANI: " \o Fixed1(c.ani) \o "%">>)

\* sorted(..., key=posterior, reverse=True): the indices by falling posterior,
\* equal posteriors in their original order
SortedByPosterior(post) ==
    LET n == Len(post.num)
        Before(j, i) == \/ BLess(post.num[i], post.num[j])
                        \/ post.num[j] = post.num[i] /\ j < i
        Rank(i) == 1 + Cardinality({j \in 1..n : Before(j, i)})
    IN  [r \in 1..n |-> CHOOSE i \in 1..n : Rank(i) = r]

\* The lines written for the idx-th candidate
CandidateLines(all_cands, post, idx) ==
    <<"",
      "  " \o ToString(idx) \o ". " \o FText(GetOr(all_cands[idx], "name", "Unknown")),
      "     Posterior P(taxon|consensus): " \o Fixed4(Entry(post, idx)),
      "     Sources: " \o FText(CandidateSources(all_cands[idx]))>>
    \o MetricLines(all_cands[idx], "     ")

RECURSIVE AllCandidateLines(_, _, _, _)
AllCandidateLines(all_cands, post, order, r) ==
    IF r > Len(order) THEN <<>>
    ELSE CandidateLines(all_cands, post, order[r])
         \o AllCandidateLines(all_cands, post, order, r + 1)

\* write_combined: the lines of the summary
write_combined(results, all_cands, post) ==
    LET classification == results.classification
        em_stats       == results.em_stats
    IN  <<"Probabilistic Classification Results - EM Algorithm",
          "Sample: " \o results.meta.id \o ", Cluster: "
              \o ToString(results.meta.cluster_id),
          "======================================================================",
          "",
          "BEST CLASSIFICATION:",
          "  Taxon: " \o FText(GetOr(classification, "name", "Unknown")),
          "  Confidence: " \o Fixed4(classification.confidence) \o " ("
              \o GetOr(classification, "confidence_level", "unknown") \o ")",
          "  Potentially Novel: " \o BoolText(GetOr(classification, "is_novel", TRUE)),
          "  Sources: " \o SourceText(classification, "none")>>
        \o (IF Falsy(Get(classification, "taxid")) THEN <<>>
            ELSE <<"  TaxID: " \o classification.taxid>>)
        \o MetricLines(classification, "  ")
        \o <<"",
             "EM ALGORITHM STATISTICS:",
             "  Iterations: " \o ToString(em_stats.iterations),
             "  Converged: " \o BoolText(em_stats.converged),
             "  Candidate Taxa: " \o ToString(em_stats.num_candidates),
             "">>
        \o (IF all_cands = <<>> THEN <<>>
            ELSE <<"ALL CANDIDATE TAXA (sorted by posterior probability):">>
                 \o AllCandidateLines(all_cands, post, SortedByPosterior(post), 1))

\* write_outputs: the three files
write_outputs(results, all_cands, post) ==
    [csv |-> write_csv(results),
     json |-> write_json(results, all_cands, post),
     combined |-> write_combined(results, all_cands, post)]

-----------------------------------------------------------------------------------------------------------------------------------------------------
(* The engine in the program's own arithmetic.  A Python float is an IEEE  *)
(* 754 binary64 number: a value is the record [m |-> BigNat, e |-> Int]     *)
(* denoting m / 2^e, and every operation is the exact one followed by       *)
(* rounding to 53 significant bits, to the nearest, ties to the even        *)
(* significand (below 2^-1022: to the spacing 2^-1074).  Values stay below  *)
(* 2^53 (no overflow to infinity).  A table is the list of its values.      *)

\* The element of a one-element set: Only({F(v) : v \in {e}}) is F(e) with e
\* computed once, before F
Only(S) == CHOOSE x \in S : TRUE

\* 2^k
RECURSIVE Pow2(_)
Pow2(k) == IF k < 13 THEN BN(2^k)
           ELSE Only({MulLimb(BMul(h, h), 2^(k % 2)) : h \in {Pow2(k \div 2)}})

Zero64 == [m |-> <<>>, e |-> 0]
One64 == [m |-> BN(1), e |-> 0]
\* float(n) of a small int n >= 0
Int64(n) == [m |-> BN(n), e |-> 0]

\* The number of binary digits of a > 0, given that it is b or more and
\* p = 2^b: p is raised, by four digits while a has more than b + 3, until
\* it exceeds a
RECURSIVE BitsFrom(_, _, _)
BitsFrom(a, p, b) ==
    IF BLess(a, p) THEN b
    ELSE IF BLess(a, MulLimb(p, 8)) THEN BitsFrom(a, MulLimb(p, 2), b + 1)
    ELSE BitsFrom(a, MulLimb(p, 16), b + 4)

\* The number of binary digits of a > 0 (a >= Base^(Len(a) - 1) >= 2^(13 *
\* (Len(a) - 1)))
Bits(a) == BitsFrom(a, Pow2(13 * (Len(a) - 1) + 1), 13 * (Len(a) - 1) + 1)

\* One limb of a quotient (long division): rem < sd * Base, sd = d * Base^j
\* with d of n limbs whose highest limb is top >= Base / 2.  The two highest
\* limbs of rem over top overestimate the limb by 2 at most.
QuotientLimb(rem, sd, n, j, top) ==
    LET two == Limb(rem, n + j + 1) * Base + Limb(rem, n + j)
        hat == IF two \div top > Base - 1 THEN Base - 1 ELSE two \div top
    IN  IF BLeq(MulLimb(sd, hat), rem) THEN hat
        ELSE IF BLeq(MulLimb(sd, hat - 1), rem) THEN hat - 1
        ELSE hat - 2

\* The quotient of a by d and the remainder, from the limbs q found so far
\* (those above limb j+1) and the remainder rem they leave
RECURSIVE DivLimbs(_, _, _, _)
DivLimbs(rem, d, j, q) ==
    IF rem = <<>> THEN [q |-> [i \in 1..(j + 1) |-> 0] \o q, r |-> <<>>]
    ELSE IF j < 0 THEN [q |-> q, r |-> rem]
    ELSE Only({DivLimbs(BSub(rem, MulLimb(Shift(d, j), c)), d, j - 1, <<c>> \o q) :
                  c \in {QuotientLimb(rem, Shift(d, j), Len(d), j, d[Len(d)])}})

\* an \div dn and whether dn divides an, for dn whose highest limb is
\* Base / 2 or more
DivNormal(an, dn) ==
    IF Len(an) < Len(dn) THEN [q |-> <<>>, exact |-> FALSE]
    ELSE Only({[q |-> Norm(dl.q), exact |-> dl.r = <<>>] :
                  dl \in {DivLimbs(an, dn, Len(an) - Len(dn), <<>>)}})

\* a \div d and whether d divides a, for d > 0: both are multiplied by f to
\* bring the highest limb of d to Base / 2 or more
DivMod(a, d) ==
    IF a = <<>> THEN [q |-> <<>>, exact |-> TRUE]
    ELSE Only({DivNormal(MulLimb(a, f), MulLimb(d, f)) :
                  f \in {Base \div (d[Len(d)] + 1)}})

\* 5^k
RECURSIVE Pow5(_)
Pow5(k) == IF k < 6 THEN BN(5^k)
           ELSE Only({MulLimb(BMul(h, h), 5^(k % 2)) : h \in {Pow5(k \div 2)}})

\* a \div 10^k: the limbs above the k \div 4 lowest, divided by 10^(k % 4)
\* (which divides Base: limb i takes its own quotient and the remainder of
\* the limb above)
DropDigits(a, k) ==
    LET hi == SubSeq(a, k \div 4 + 1, Len(a))
        p  == 10^(k % 4)
    IN  Norm([i \in 1..Len(hi) |->
                 hi[i] \div p + (Limb(hi, i + 1) % p) * (Base \div p)] \o <<>>)

\* 10^k divides a
DroppedZero(a, k) ==
    /\ \A i \in 1..(k \div 4) : Limb(a, i) = 0
    /\ Limb(a, k \div 4 + 1) % 10^(k % 4) = 0

\* a \div 2 (2 divides Base: limb i takes its own half, and half a Base for
\* an odd limb above)
Halve(a) ==
    Norm([i \in 1..Len(a) |->
             a[i] \div 2 + (Limb(a, i + 1) % 2) * (Base \div 2)] \o <<>>)

\* q2 / 2 to the nearest integer, where q2 is a quotient cut to an integer
\* (exact: nothing was cut): a half goes to the even neighbour
RoundHalf(q2, exact, e) ==
    Only({[m |-> IF Limb(q2, 1) % 2 = 1 /\ (~exact \/ Limb(q, 1) % 2 = 1)
                 THEN BAdd(q, BN(1)) ELSE q,
           e |-> e] : q \in {Halve(q2)}})

\* m / 2^e to the nearest multiple of 2^(s - e).  m \div 2^t is
\* (m * 5^t) \div 10^t
RoundBy(m, e, s) ==
    IF s <= 0 THEN [m |-> m, e |-> e]
    ELSE Only({RoundHalf(DropDigits(tens, s - 1), DroppedZero(tens, s - 1), e - s) :
                  tens \in {BMul(m, Pow5(s - 1))}})

\* The binary64 number nearest to m / 2^e
Round64(m, e) ==
    IF m = <<>> THEN Zero64
    ELSE Only({RoundBy(m, e, Max({bits - 53, e - 1074})) : bits \in {Bits(m)}})

\* m * 2^t
Scale(m, t) == IF t = 0 THEN m ELSE BMul(m, Pow2(t))

\* The significands of x and y over their common power of two
Aligned(x, y) ==
    Only({[a |-> Scale(x.m, e - x.e), b |-> Scale(y.m, e - y.e), e |-> e] :
             e \in {Max({x.e, y.e})}})

Less64(x, y) == Only({BLess(c.a, c.b) : c \in {Aligned(x, y)}})

Mul64(x, y) == Round64(BMul(x.m, y.m), x.e + y.e)

Add64(x, y) == Only({Round64(BAdd(c.a, c.b), c.e) : c \in {Aligned(x, y)}})

\* abs(x - y)
AbsDiff64(x, y) ==
    Only({Round64(BAbsDiff(c.a, c.b), c.e) : c \in {Aligned(x, y)}})

\* x * 2^t / y: the quotient of the significands and one more bit telling
\* whether the division left a remainder, rounded
DivBy(x, y, t) ==
    Only({Round64(BAdd(MulLimb(dm.q, 2), BN(IF dm.exact THEN 0 ELSE 1)),
                  t + x.e - y.e + 1) :
             dm \in {DivMod(Scale(x.m, t), y.m)}})

\* x / y for y > 0, from a quotient of 55 bits or more
Div64(x, y) ==
    IF x.m = <<>> THEN Zero64
    ELSE Only({DivBy(x, y, t) : t \in {Max({0, 55 + Bits(y.m) - Bits(x.m)})}})

\* float() of a decimal text, and a float literal
Binary64(q) == Div64(Int64(q.n), Int64(q.d))

\* {i: 1.0 / len(candidates)}
Uniform64(n) == Only({[i \in 1..n |-> u] \o <<>> : u \in {Div64(One64, Int64(n))}})

initialize_priors64(cands) == Uniform64(Len(cands))

\* sum(values): the additions from 0, left to right
RECURSIVE Sum64(_, _)
Sum64(s, i) == IF i = 0 THEN Zero64 ELSE Add64(Sum64(s, i - 1), s[i])

\* {i: likelihood * prior}
Unnormalized64(cands, prior) ==
    [i \in 1..Len(cands) |-> Mul64(cands[i].merged_likelihood, prior[i])] \o <<>>

\* {i: p / total}, or the uniform table when total == 0
Normalize64(un, total) ==
    IF total.m = <<>> THEN Uniform64(Len(un))
    ELSE [i \in 1..Len(un) |-> Div64(un[i], total)] \o <<>>

em_step64(cands, prior) ==
    Only({Normalize64(un, Sum64(un, Len(un))) : un \in {Unnormalized64(cands, prior)}})

\* max(abs(new_priors[i] - priors[i]) for i in range(len(candidates)))
MaxChange64(new, old) ==
    Only({change[CHOOSE i \in 1..Len(new) :
                    \A j \in 1..Len(new) : ~Less64(change[i], change[j])] :
             change \in {[i \in 1..Len(new) |-> AbsDiff64(new[i], old[i])] \o <<>>}})

\* max(posteriors.items(), key=lambda x: x[1])[0]: the first index of the
\* greatest value
BestIdx64(post) ==
    CHOOSE i \in 1..Len(post) :
        /\ \A j \in 1..Len(post) : ~Less64(post[i], post[j])
        /\ \A j \in 1..(i - 1) : Less64(post[j], post[i])

ConfidenceLevel64(best_posterior, nt) ==
    IF ~Less64(best_posterior, Binary64(Q(9, 10))) THEN "high"
    ELSE IF ~Less64(best_posterior, Binary64(Q(7, 10))) THEN "medium"
    ELSE IF ~Less64(best_posterior, nt) THEN "low"
    ELSE "very_low_novel"

\* The classification of the candidate at best_idx
Classified64(cands, post, nt, best_idx) ==
    LET best_candidate == cands[best_idx]
        best_posterior == post[best_idx]
    IN  Only({[classification |->
                  [method |-> "EM_probabilistic",
                   taxid |-> Get(best_candidate, "taxid"),
                   name |-> Get(best_candidate, "name"),
                   reference |-> Get(best_candidate, "reference"),
                   confidence |-> best_posterior,
                   confidence_level |-> ConfidenceLevel64(best_posterior, nt),
                   is_novel |-> is_novel,
                   source |-> IF "all_sources" \in DOMAIN best_candidate
                              THEN best_candidate.all_sources
                              ELSE <<Get(best_candidate, "source")>>,
                   num_sources |-> IF "num_sources" \in DOMAIN best_candidate
                                   THEN best_candidate.num_sources ELSE 1,
                   identity |-> Get(best_candidate, "identity"),
                   ani |-> Get(best_candidate, "ani"),
                   likelihood |-> best_candidate.merged_likelihood],
               is_novel |-> is_novel, best_idx |-> best_idx] :
                 is_novel \in {Less64(best_posterior, nt)}})

determine_classification64(cands, post, nt) ==
    IF cands = <<>> \/ post = <<>>
    THEN [classification |-> Unclassified, is_novel |-> TRUE, best_idx |-> 0]
    ELSE Only({Classified64(cands, post, nt, best_idx) :
                  best_idx \in {BestIdx64(post)}})

-----------------------------------------------------------------------------
(* Bounds and inputs                                                       *)

MaxN == 3        \* candidates in a list drawn for the EM engine
MaxIter == 3     \* max_iterations drawn for the EM engine: -1..MaxIter
MaxRows == 2     \* rows (or failing files) of one request, over the three files
MaxIdRows == 1   \* rows of a request whose identifiers are not the default ones

DefaultMaxIterations == 50
DefaultConvergence == Q(1, 1000000)
DefaultNovelty == Q(1, 2)
DefaultArgs == [min_kraken2_confidence |-> Q(1, 10),
                min_blast_identity |-> Q(70, 1),
                min_ani_similarity |-> Q(80, 1)]

\* --sample-id and --cluster-id of the default request
DefaultIdentifiers == [sample_id |-> "S1", cluster_id |-> "7"]

\* The identifiers given on the command line
Identifiers ==
    {DefaultIdentifiers,
     [sample_id |-> "007", cluster_id |-> "007"],
     [sample_id |-> "S1", cluster_id |-> "c7"]}

\* No output file exists
NoOutputs == [csv |-> <<>>, json |-> <<>>, combined |-> <<>>]

Seqs(S, k) == UNION {[1..j -> S] : j \in 0..k}

LikValues == {Q(0, 1), Q(1, 4), Q(1, 2), Q(1, 1), Q(3, 2)}

\* Lists run with the default parameters
ScenarioLists == {<<Q(19, 20), Q(2, 5), Q(1, 10)>>,
                  <<Q(1, 2), Q(1, 2)>>,
                  <<Q(9, 10), Q(1, 10)>>,
                  <<Q(7, 10), Q(3, 10)>>}

\* Lists whose first posterior sits at or next to a tier bound, run for one
\* iteration
BoundaryLists == {<<Q(9, 10), Q(1, 10)>>,
                  <<Q(7, 10), Q(3, 10)>>,
                  <<Q(69999, 100000), Q(30001, 100000)>>}

Thresholds == {Q(0, 1), DefaultConvergence, Q(3, 25)}

NoveltyThresholds == {Q(0, 1), DefaultNovelty, Q(3, 5), Q(17, 20), Q(1, 1)}

EMInputs ==
    {[ls |-> ls, m |-> m, t |-> t] :
        ls \in Seqs(LikValues, MaxN), m \in -1..MaxIter, t \in Thresholds}
    \cup
    {[ls |-> ls, m |-> DefaultMaxIterations, t |-> DefaultConvergence] :
        ls \in ScenarioLists}
    \cup
    {[ls |-> ls, m |-> 1, t |-> DefaultConvergence] : ls \in BoundaryLists}

\* The binary64 number after x > 0 (x as RoundNearestEven returns it)
NextUp(x) == [m |-> BAdd(x.m, BN(1)), e |-> x.e]

ThreeQuarters == Binary64(Q(3, 4))

\* 0.0, 0.5, 0.75 and 0.7500000000000001
LikValues64 == {Zero64, Binary64(Q(1, 2)), ThreeQuarters, NextUp(ThreeQuarters)}

Thresholds64 == {Zero64, Binary64(DefaultConvergence)}

\* The merged list of single-source candidates with the given likelihoods
\* (the mean of one likelihood is that likelihood)
MergedOf64(ls) ==
    [i \in 1..Len(ls) |->
        [source |-> "kraken2", taxid |-> ToString(i), name |-> "taxon",
         confidence |-> ls[i], likelihood |-> ls[i],
         merged_likelihood |-> ls[i], num_sources |-> 1,
         all_sources |-> <<"kraken2">>]]

\* A list of single-source candidates with the given likelihoods
RawOf(ls) ==
    [i \in 1..Len(ls) |->
        [source |-> "kraken2", taxid |-> ToString(i), name |-> "taxon",
         confidence |-> ls[i], likelihood |-> ls[i]]]

KrakenRows ==
    {<<"C", "r1", "562", "0.8", "Escherichia coli">>,
     <<"C", "r1", "562", "0.1", "Escherichia coli">>,
     <<"C", "r1", "1280", "0.05", "Staphylococcus aureus">>,
     <<"U", "r1", "0", "0.0", "unclassified">>,
     <<"C", "r1", "1280", "1500", "Staphylococcus aureus">>,
     <<"C", "r1", "562", "n/a", "Escherichia coli">>,
     <<"C", "r2", "562", "0.8", "Escherichia coli K-12">>,
     <<"C", "r1", "562">>}

BlastRows ==
    {<<"562", "Escherichia coli", "0", "1500", "2700", "100">>,
     <<"562", "Escherichia coli", "0.5", "1500", "900", "90">>,
     <<"1280", "Staphylococcus aureus", "0", "1200", "800", "70">>,
     <<"1280", "Staphylococcus aureus", "0", "1200", "800", "69.9">>,
     <<"562", "Escherichia coli", "1e-x", "1500", "2700", "100">>,
     <<"562", "Escherichia coli", "-1", "1500", "2700", "100">>,
     <<"", "", "0", "1500", "2700", "100">>,
     <<"562", "Escherichia coli">>}

FastaniRows ==
    {<<"refs/GCF_000005845.fna", "query.fa", "96", "90", "100">>,
     <<"refs/562.fna", "query.fa", "80", "50", "100">>,
     <<"refs/GCF_000013425.fna", "query.fa", "79.9", "99", "100">>,
     <<"refs/GCF_000005845.fna", "query.fa", "96", "90", "0">>,
     <<"refs/GCF_000013425.fna", "query.fa", "100", "3", "2">>,
     <<"refs/GCF_000005845.fna", "query.fa", "96", "9x", "100">>,
     <<"refs/GCF_000005845.fna">>}

NoFile == [status |-> "none", rows |-> <<>>]

\* The files of size <= k: an option not given, a path that does not exist,
\* a file that cannot be read, or a readable file of up to k rows
FileOptions(rowset, k) ==
    {NoFile}
    \cup (IF k >= 1 THEN {[status |-> "missing", rows |-> <<>>],
                          [status |-> "unreadable", rows |-> <<>>]}
                    ELSE {})
    \cup {[status |-> "ok", rows |-> r] : r \in Seqs(rowset, k)}

Size(f) == IF f.status \in {"missing", "unreadable"} THEN 1 ELSE Len(f.rows)

MainMaxIterations == {0, 2}

-----------------------------------------------------------------------------
(* main(), step by step                                                    *)

EmLocals == <<priors, posteriors, posteriors_bound, iteration, last_change>>
Inputs == <<argv, files, args, max_iterations, convergence_threshold>>

InitLocals ==
    /\ priors = EmptyTable
    /\ posteriors = EmptyTable
    /\ posteriors_bound = FALSE
    /\ iteration = 0
    /\ last_change = [n |-> <<>>, d |-> BN(1)]
    /\ em_result = EmptyReturn
    /\ raised = "none"
    /\ result = [classification |-> Unclassified, is_novel |-> TRUE, best_idx |-> 0]

Init ==
    /\ \E k \in FileOptions(KrakenRows, MaxRows) :
         \E b \in FileOptions(BlastRows, MaxRows - Size(k)) :
           \E f \in FileOptions(FastaniRows, MaxRows - Size(k) - Size(b)) :
             /\ files = [kraken2 |-> k, blast |-> b, fastani |-> f]
             /\ argv \in IF Size(k) + Size(b) + Size(f) <= MaxIdRows
                          THEN Identifiers ELSE {DefaultIdentifiers}
    /\ args = DefaultArgs
    /\ outputs = NoOutputs
    /\ max_iterations \in MainMaxIterations
    /\ convergence_threshold = DefaultConvergence
    /\ novelty_threshold = DefaultNovelty
    /\ all_candidates = <<>>
    /\ warnings = <<>>
    /\ candidates = <<>>
    /\ pc = "parse_args"
    /\ InitLocals

\* The engine alone, on a merged list drawn from the bounded inputs
InitEM ==
    /\ \E in \in EMInputs :
         /\ all_candidates = RawOf(in.ls)
         /\ candidates = merge_candidates(RawOf(in.ls))
         /\ max_iterations = in.m
         /\ convergence_threshold = in.t
    /\ files = [kraken2 |-> NoFile, blast |-> NoFile, fastani |-> NoFile]
    /\ argv = DefaultIdentifiers
    /\ args = DefaultArgs
    /\ outputs = NoOutputs
    /\ novelty_threshold = DefaultNovelty
    /\ warnings = <<>>
    /\ pc = "em_start"
    /\ InitLocals

\* args = parse_args(): --sample-id is kept as given, --cluster-id goes
\* through int(); a text int() rejects makes argparse exit with status 2
ParseArgs ==
    /\ pc = "parse_args"
    /\ IF IsInt(argv.cluster_id)
       THEN /\ args' = args @@ [sample_id |-> argv.sample_id,
                                cluster_id |-> IntOf[argv.cluster_id]]
            /\ pc' = "kraken2"
            /\ UNCHANGED raised
       ELSE /\ raised' = "SystemExit"
            /\ pc' = "exited"
            /\ UNCHANGED args
    /\ UNCHANGED <<argv, files, max_iterations, convergence_threshold, outputs,
                   all_candidates, warnings, candidates, EmLocals, em_result,
                   novelty_threshold, result>>

\* if args.X: X_candidates = parse_X(...); all_candidates.extend(X_candidates)
Extract(r, tag, next) ==
    /\ all_candidates' = all_candidates \o r.candidates
    /\ warnings' = IF r.warned THEN Append(warnings, tag) ELSE warnings
    /\ pc' = next
    /\ UNCHANGED <<Inputs, outputs, candidates, EmLocals, em_result, raised,
                   novelty_threshold, result>>

ParseKraken2 ==
    /\ pc = "kraken2"
    /\ Extract(parse_kraken2(files.kraken2, args.min_kraken2_confidence),
               "kraken2", "blast")

ParseBlast ==
    /\ pc = "blast"
    /\ Extract(parse_blast(files.blast, args.min_blast_identity), "blast", "fastani")

ParseFastani ==
    /\ pc = "fastani"
    /\ Extract(parse_fastani(files.fastani, args.min_ani_similarity),
               "fastani", "merge")

Merge ==
    /\ pc = "merge"
    /\ candidates' = merge_candidates(all_candidates)
    /\ all_candidates' = InputsAfterMerge(all_candidates)
    /\ pc' = "em_start"
    /\ UNCHANGED <<Inputs, outputs, warnings, EmLocals, em_result, raised,
                   novelty_threshold, result>>

\* run_em_algorithm up to the loop
RunEmStart ==
    /\ pc = "em_start"
    /\ IF candidates = <<>>
       THEN /\ em_result' = EmptyReturn
            /\ pc' = "decide"
            /\ UNCHANGED priors
       ELSE /\ priors' = initialize_priors(candidates)
            /\ pc' = "em_loop"
            /\ UNCHANGED em_result
    /\ UNCHANGED <<Inputs, outputs, all_candidates, warnings, candidates, posteriors,
                   posteriors_bound, iteration, last_change, raised,
                   novelty_threshold, result>>

\* One body of the for loop
EmIterate ==
    /\ pc = "em_loop"
    /\ iteration < max_iterations
    /\ LET post       == em_step(candidates, priors)
           max_change == MaxChange(post, priors)
       IN  /\ posteriors' = post
           /\ posteriors_bound' = TRUE
           /\ last_change' = max_change
           /\ iteration' = iteration + 1
           /\ IF RLess(max_change, convergence_threshold)
              THEN /\ em_result' = ConvergedReturn(post, iteration)
                   /\ pc' = "decide"
                   /\ UNCHANGED priors
              ELSE /\ priors' = post
                   /\ UNCHANGED <<em_result, pc>>
    /\ UNCHANGED <<Inputs, outputs, all_candidates, warnings, candidates, raised,
                   novelty_threshold, result>>

\* The loop is exhausted: return posteriors, max_iterations, False; the
\* local 'posteriors' is unbound when no body ran
EmExhausted ==
    /\ pc = "em_loop"
    /\ iteration >= max_iterations
    /\ IF posteriors_bound
       THEN /\ em_result' = CapReturn(posteriors, max_iterations)
            /\ pc' = "decide"
            /\ UNCHANGED raised
       ELSE /\ raised' = "UnboundLocalError"
            /\ pc' = "raised"
            /\ UNCHANGED em_result
    /\ UNCHANGED <<Inputs, outputs, all_candidates, warnings, candidates, EmLocals,
                   novelty_threshold, result>>

\* Decide taking any of several equal maxima as the winner
DecideArbitraryMaximum(nt) ==
    /\ pc = "decide"
    /\ novelty_threshold' = nt
    /\ LET post == em_result.posteriors
           d    == determine_classification(candidates, post, nt)
       IN  IF d.best_idx = 0 THEN result' = d
           ELSE \E i \in 1..Len(post.num) :
                  /\ post.num[i] = post.num[d.best_idx]
                  /\ result' = [d EXCEPT !.best_idx = i,
                                         !.classification.taxid =
                                             Get(candidates[i], "taxid")]
    /\ pc' = "done"
    /\ UNCHANGED <<Inputs, outputs, all_candidates, warnings, candidates, EmLocals,
                   em_result, raised>>

Decide(nt) ==
    /\ pc = "decide"
    /\ novelty_threshold' = nt
    /\ result' = determine_classification(candidates, em_result.posteriors, nt)
    /\ pc' = "done"
    /\ UNCHANGED <<Inputs, outputs, all_candidates, warnings, candidates, EmLocals,
                   em_result, raised>>

\* results = {...}; write_outputs(args.output_prefix, results,
\* merged_candidates, posteriors)
WriteOutputs ==
    /\ pc = "done"
    /\ LET results == [meta |-> [id |-> args.sample_id, cluster_id |-> args.cluster_id],
                       classification |-> result.classification,
                       em_stats |-> [iterations |-> em_result.iterations,
                                     converged |-> em_result.converged,
                                     num_candidates |-> Len(candidates)]]
       IN  outputs' = write_outputs(results, candidates, em_result.posteriors)
    /\ pc' = "written"
    /\ UNCHANGED <<Inputs, all_candidates, warnings, candidates, EmLocals,
                   em_result, raised, novelty_threshold, result>>

\* main() passes args.novelty_threshold
DecideMain == Decide(novelty_threshold)

\* determine_classification for any novelty threshold
DecideAny == \E nt \in NoveltyThresholds : Decide(nt)

Next ==
    \/ ParseArgs
    \/ ParseKraken2
    \/ ParseBlast
    \/ ParseFastani
    \/ Merge
    \/ RunEmStart
    \/ EmIterate
    \/ EmExhausted
    \/ DecideMain
    \/ WriteOutputs

Spec == Init /\ [][Next]_vars

NextEM ==
    \/ RunEmStart
    \/ EmIterate
    \/ EmExhausted
    \/ DecideAny

SpecEM == InitEM /\ [][NextEM]_vars

\* The engine and the decider in binary64 arithmetic, on a merged list
InitEM64 ==
    /\ \E ls \in Seqs(LikValues64, MaxN) :
         /\ all_candidates = <<>>
         /\ candidates = MergedOf64(ls)
    /\ max_iterations \in 0..MaxIter
    /\ convergence_threshold \in Thresholds64
    /\ novelty_threshold = Binary64(DefaultNovelty)
    /\ files = [kraken2 |-> NoFile, blast |-> NoFile, fastani |-> NoFile]
    /\ argv = DefaultIdentifiers
    /\ args = DefaultArgs
    /\ outputs = NoOutputs
    /\ warnings = <<>>
    /\ pc = "em_start"
    /\ priors = <<>>
    /\ posteriors = <<>>
    /\ posteriors_bound = FALSE
    /\ iteration = 0
    /\ last_change = Zero64
    /\ em_result = [posteriors |-> <<>>, iterations |-> 0, converged |-> FALSE]
    /\ raised = "none"
    /\ result = [classification |-> Unclassified, is_novel |-> TRUE, best_idx |-> 0]

RunEmStart64 ==
    /\ pc = "em_start"
    /\ IF candidates = <<>>
       THEN /\ em_result' = [posteriors |-> <<>>, iterations |-> 0,
                             converged |-> FALSE]
            /\ pc' = "decide"
            /\ UNCHANGED priors
       ELSE /\ priors' = initialize_priors64(candidates)
            /\ pc' = "em_loop"
            /\ UNCHANGED em_result
    /\ UNCHANGED <<Inputs, outputs, all_candidates, warnings, candidates, posteriors,
                   posteriors_bound, iteration, last_change, raised,
                   novelty_threshold, result>>

EmIterate64 ==
    /\ pc = "em_loop"
    /\ iteration < max_iterations
    /\ \E post \in {em_step64(candidates, priors)} :
         \E max_change \in {MaxChange64(post, priors)} :
           /\ posteriors' = post
           /\ posteriors_bound' = TRUE
           /\ last_change' = max_change
           /\ iteration' = iteration + 1
           /\ IF Less64(max_change, convergence_threshold)
              THEN /\ em_result' = ConvergedReturn(post, iteration)
                   /\ pc' = "decide"
                   /\ UNCHANGED priors
              ELSE /\ priors' = post
                   /\ UNCHANGED <<em_result, pc>>
    /\ UNCHANGED <<Inputs, outputs, all_candidates, warnings, candidates, raised,
                   novelty_threshold, result>>

EmExhausted64 ==
    /\ pc = "em_loop"
    /\ iteration >= max_iterations
    /\ IF posteriors_bound
       THEN /\ em_result' = CapReturn(posteriors, max_iterations)
            /\ pc' = "decide"
            /\ UNCHANGED raised
       ELSE /\ raised' = "UnboundLocalError"
            /\ pc' = "raised"
            /\ UNCHANGED em_result
    /\ UNCHANGED <<Inputs, outputs, all_candidates, warnings, candidates, EmLocals,
                   novelty_threshold, result>>

Decide64 ==
    /\ pc = "decide"
    /\ result' = determine_classification64(candidates, em_result.posteriors,
                                            novelty_threshold)
    /\ pc' = "done"
    /\ UNCHANGED <<Inputs, outputs, all_candidates, warnings, candidates, EmLocals,
                   em_result, raised, novelty_threshold>>

NextEM64 ==
    \/ RunEmStart64
    \/ EmIterate64
    \/ EmExhausted64
    \/ Decide64

SpecEM64 == InitEM64 /\ [][NextEM64]_vars

-----------------------------------------------------------------------------
(* Properties                                                              *)

N == Len(candidates)
Returned == pc \in {"decide", "done"}
Decided == pc = "done"
Likelihoods == [i \in 1..N |-> LikelihoodOf(candidates[i])]
InUnit(q) == q.n >= 0 /\ q.n <= q.d
DefaultRun == /\ max_iterations = DefaultMaxIterations
              /\ convergence_threshold = DefaultConvergence

\* The value 1
IsOne(x) == x.n = x.d /\ x.d # <<>>

\* A table over the N candidates whose entries lie in [0, 1] and sum to 1
IsDistribution(t) ==
    /\ Len(t.num) = N
    /\ \A i \in 1..N : BLeq(t.num[i], t.den)
    /\ IsOne(TableSum(t))

\* |x - 1| and x as values, for a table entry
Below(x, q) == RLess(x, q)
OneMinus(t, i) == [n |-> BAbsDiff(t.den, t.num[i]), d |-> t.den]

(* C1: for N >= 1 and merged likelihoods in [0,1], the posterior table of   *)
(* every EM iteration, and the one run_em_algorithm returns, is a           *)
(* probability distribution over the N candidates: entries non-negative     *)
(* (here: in [0,1]) and summing to 1.                                       *)
C1_PosteriorIsDistribution ==
    (N >= 1 /\ \A i \in 1..N : InUnit(Likelihoods[i])) =>
        /\ posteriors_bound => IsDistribution(posteriors)
        /\ Returned => IsDistribution(em_result.posteriors)

C1_Witness ==
    /\ pc = "decide"
    /\ N = 3
    /\ \A i \in 1..N : InUnit(Likelihoods[i])
    /\ em_result.converged
    /\ em_result.iterations >= 2
    /\ em_result.posteriors.num[1] # em_result.posteriors.num[2]

(* C2: every candidate the three extractors produce has a likelihood in     *)
(* [0,1], and so has every merged_likelihood.                               *)
C2_LikelihoodInUnitInterval ==
    /\ \A i \in 1..Len(all_candidates) : InUnit(all_candidates[i].likelihood)
    /\ \A i \in 1..N : InUnit(candidates[i].merged_likelihood)

(* C3: the number of iterations run_em_algorithm returns is never greater   *)
(* than max_iterations.                                                     *)
C3_IterationsWithinCap == Returned => em_result.iterations <= max_iterations

(* C3, amended: whenever max_iterations >= 0 the number of iterations       *)
(* returned is at most max_iterations; with a negative max_iterations the   *)
(* only return is that of the empty candidate list, with 0 iterations.      *)
C3_IterationsWithinNonNegativeCap ==
    Returned =>
        /\ max_iterations >= 0 => em_result.iterations <= max_iterations
        /\ max_iterations < 0 => (N = 0 /\ em_result.iterations = 0)

C3_Witness ==
    /\ pc = "decide"
    /\ N >= 2
    /\ max_iterations >= 2
    /\ em_result.iterations = max_iterations
    /\ em_result.converged

(* C4: the classification core has no fatal error path: for N >= 1 and any  *)
(* max_iterations, reaching the cap without convergence returns the last    *)
(* computed posterior with converged = false, and no exception is raised.   *)
C4_CapReturnsWithoutException ==
    /\ raised = "none"
    /\ (Returned /\ N >= 1 /\ ~em_result.converged) =>
           /\ posteriors_bound
           /\ em_result.posteriors = posteriors
           /\ em_result.iterations = max_iterations

(* C5: with no candidates run_em_algorithm returns an empty posterior, 0    *)
(* iterations and converged = false, and determine_classification returns   *)
(* 'Unclassified' with confidence 0.0, is_novel = true and a reason string; *)
(* nothing is raised.                                                       *)
C5_EmptyCandidateList ==
    N = 0 =>
        /\ raised = "none" /\ pc # "raised"
        /\ Returned => /\ em_result.posteriors.num = <<>>
                       /\ em_result.iterations = 0
                       /\ em_result.converged = FALSE
        /\ Decided => /\ result.classification.classification = "Unclassified"
                      /\ result.classification.confidence.n = <<>>
                      /\ result.classification.is_novel = TRUE
                      /\ result.is_novel = TRUE
                      /\ "reason" \in DOMAIN result.classification
                      /\ result.classification.reason # ""

C5_Witness == Decided /\ N = 0 /\ max_iterations = 0

ScenarioA == N = 3 /\ Likelihoods = <<Q(19, 20), Q(2, 5), Q(1, 10)>>

ScenarioAOutcome ==
    /\ em_result.converged
    /\ Below(OneMinus(em_result.posteriors, 1), Q(1, 10000))
    /\ Below(Entry(em_result.posteriors, 2), Q(1, 10000))
    /\ Below(Entry(em_result.posteriors, 3), Q(1, 10000))
    /\ (Decided /\ novelty_threshold = DefaultNovelty) =>
           /\ result.classification.confidence_level = "high"
           /\ result.is_novel = FALSE

(* C6: Scenario A: merged likelihoods [0.95, 0.40, 0.10] with the default   *)
(* parameters converge within at most 5 iterations to a posterior within    *)
(* 1e-4 of [1, 0, 0]; the tier is 'high' and is_novel is false.             *)
C6_ScenarioAWithinFive ==
    (ScenarioA /\ DefaultRun /\ Returned) =>
        /\ ScenarioAOutcome
        /\ em_result.iterations <= 5

(* C6, amended: Scenario A converges after exactly 17 iterations (not       *)
(* within 5) to a posterior within 1e-4 of [1, 0, 0]; tier 'high',          *)
(* is_novel false.                                                          *)
C6_ScenarioAAfterSeventeen ==
    (ScenarioA /\ DefaultRun /\ Returned) =>
        /\ ScenarioAOutcome
        /\ em_result.iterations = 17

C6_Witness ==
    /\ ScenarioA /\ DefaultRun /\ Decided
    /\ novelty_threshold = DefaultNovelty
    /\ result.classification.confidence_level = "high"

ScenarioB == N = 2 /\ Likelihoods = <<Q(1, 2), Q(1, 2)>>

(* C7: Scenario B: two candidates of merged likelihood 0.5 each converge    *)
(* to the posterior [0.5, 0.5]; the first candidate wins; is_novel is true  *)
(* exactly when novelty_threshold > 0.5.                                    *)
C7_ScenarioB ==
    (ScenarioB /\ DefaultRun /\ Returned) =>
        /\ em_result.converged
        /\ \A i \in 1..2 : BAdd(em_result.posteriors.num[i],
                                em_result.posteriors.num[i]) = em_result.posteriors.den
        /\ Decided => /\ result.best_idx = 1
                      /\ result.is_novel = QLess(Q(1, 2), novelty_threshold)

C7_Witness ==
    /\ ScenarioB /\ DefaultRun /\ Decided
    /\ novelty_threshold = Q(3, 5)
    /\ result.is_novel

(* C8: determine_classification selects an index of maximum posterior, and  *)
(* among several indices sharing the maximum the first one.                 *)
C8_FirstMaximumWins ==
    (Decided /\ N >= 1) =>
        LET post == em_result.posteriors.num
            b    == result.best_idx
        IN  /\ b \in 1..N
            /\ \A j \in 1..N : BLeq(post[j], post[b])
            /\ \A j \in 1..(b - 1) : BLess(post[j], post[b])

C8_Witness ==
    /\ Decided /\ N = 3
    /\ result.best_idx = 2
    /\ em_result.posteriors.num[3] = em_result.posteriors.num[2]
    /\ em_result.posteriors.num[2] # <<>>

WinningPosterior == result.classification.confidence
Tier == result.classification.confidence_level
AtLeast(x, n, d) == BLeq(BMul(BN(n), x.d), BMul(x.n, BN(d)))

(* C9: for N >= 1 the tier is the first matching rule on the winning        *)
(* posterior p: p >= 0.9 'high'; else p >= 0.7 'medium'; else               *)
(* p >= novelty_threshold 'low'; else 'very_low_novel'.  p = 0.9 exactly is *)
(* 'high'; p = 0.69999 with novelty_threshold 0.5 is 'low'.                 *)
C9_TierRule ==
    (Decided /\ N >= 1) =>
        LET p  == WinningPosterior
            nt == novelty_threshold
            geNt == BLeq(BMul(BN(nt.n), p.d), BMul(p.n, BN(nt.d)))
        IN  /\ Tier = (IF AtLeast(p, 9, 10) THEN "high"
                       ELSE IF AtLeast(p, 7, 10) THEN "medium"
                       ELSE IF geNt THEN "low"
                       ELSE "very_low_novel")
            /\ BMul(p.n, BN(10)) = BMul(p.d, BN(9)) => Tier = "high"
            /\ (BMul(p.n, BN(100000)) = BMul(p.d, BN(69999)) /\ nt = Q(1, 2))
                  => Tier = "low"

C9_Witness ==
    /\ Decided /\ N = 2
    /\ BMul(WinningPosterior.n, BN(10)) = BMul(WinningPosterior.d, BN(9))
    /\ Tier = "high"

(* C10: for N >= 1, is_novel equals (winning posterior < novelty_threshold) *)
(* and the tier 'very_low_novel' implies is_novel, for every                *)
(* novelty_threshold.                                                       *)
C10_NoveltyFlag ==
    (Decided /\ N >= 1) =>
        LET p  == WinningPosterior
            nt == novelty_threshold
        IN  /\ result.is_novel = BLess(BMul(p.n, BN(nt.d)), BMul(BN(nt.n), p.d))
            /\ result.classification.is_novel = result.is_novel
            /\ Tier = "very_low_novel" => result.is_novel

C10_Witness ==
    /\ Decided /\ N >= 2
    /\ Tier = "very_low_novel"
    /\ result.is_novel
    /\ novelty_threshold = Q(3, 5)

-----------------------------------------------------------------------------
(* Determinism and monotonicity of the engine                              *)

\* A second run of the engine on the merged list and parameters of this run
SecondRun == run_em_algorithm(candidates, max_iterations, convergence_threshold)

Raise(cands, i, b) == [cands EXCEPT ![i].merged_likelihood = b]

\* The final posterior table of the run on the list with candidate i raised
\* to b, all parameters as in this run
RaisedRun(i, b) ==
    run_em_algorithm(Raise(candidates, i, b), max_iterations,
                     convergence_threshold).returned.posteriors

\* The likelihoods in [0, 1] above candidate i's
RaisedValues(i) ==
    {b \in LikValues : InUnit(b) /\ QLess(Likelihoods[i], b)}

(* C12: for a list with likelihoods in [0,1], after candidate i's           *)
(* merged_likelihood is raised (the others and the parameters fixed), no    *)
(* candidate j whose final posterior was below or equal to i's has a final  *)
(* posterior strictly above i's.                                            *)
C12_Monotonicity ==
    (/\ pc = "decide" /\ N >= 1 /\ max_iterations <= MaxIter
     /\ \A k \in 1..N : InUnit(Likelihoods[k]))
    => \A i \in 1..N : \A b \in RaisedValues(i) :
          LET before == em_result.posteriors
              after  == RaisedRun(i, b)
          IN  \A j \in 1..N :
                  BLeq(before.num[j], before.num[i])
                      => BLeq(after.num[j], after.num[i])

\* Candidate 2 is strictly above candidate 1, and strictly below it once
\* candidate 1 is raised to 1
C12_Witness ==
    /\ pc = "decide" /\ N >= 2 /\ max_iterations <= MaxIter
    /\ Likelihoods[1] = Q(1, 4) /\ Likelihoods[2] = Q(1, 2)
    /\ em_result.iterations >= 2
    /\ BLess(em_result.posteriors.num[1], em_result.posteriors.num[2])
    /\ BLess(RaisedRun(1, Q(1, 1)).num[2], RaisedRun(1, Q(1, 1)).num[1])

-----------------------------------------------------------------------------
(* Candidate merger                                                        *)

\* merge_candidates has run
Merged == pc \in {"em_start", "em_loop", "decide", "done", "raised"}

\* The candidates of all_candidates with identity key k, in input order
Contributors(k) == SelectSeq(all_candidates, LAMBDA c : KeyOf(c) = k)

ContributorLikelihoods(k) ==
    [i \in 1..Len(Contributors(k)) |-> Contributors(k)[i].likelihood]

(* C13: the merged_likelihood of every merged candidate is the arithmetic   *)
(* mean of the likelihoods of all candidates with its identity key (count   *)
(* times the merged value is their sum); likelihoods 0.8 and 0.6 merge to   *)
(* 0.7.                                                                     *)
C13_MergedLikelihoodIsMean ==
    Merged =>
        \A m \in 1..N :
            LET ls == ContributorLikelihoods(KeyOf(candidates[m]))
            IN  /\ ls # <<>>
                /\ QMul(candidates[m].merged_likelihood, Q(Len(ls), 1)) = QSum(ls)
                /\ ls = <<Q(4, 5), Q(3, 5)>>
                      => candidates[m].merged_likelihood = Q(7, 10)

\* Scenario D: read-classifier 0.8 and pairwise-alignment 0.6 for one taxon id
C13_Witness ==
    /\ Merged /\ N = 1
    /\ ContributorLikelihoods(KeyOf(candidates[1])) = <<Q(4, 5), Q(3, 5)>>
    /\ candidates[1].merged_likelihood = Q(7, 10)
    /\ candidates[1].num_sources = 2

\* The source kinds among the candidates with identity key k
SourceKinds(k) == {Contributors(k)[i].source : i \in 1..Len(Contributors(k))}

(* C14: for every merged candidate, num_sources is the number of distinct  *)
(* source kinds among the candidates with its identity key, is at most 3,   *)
(* and all_sources names each kind at most once.                            *)
C14_SourcesFormASet ==
    Merged =>
        \A m \in 1..N :
            LET c == candidates[m]
            IN  /\ c.num_sources = Cardinality(SourceKinds(KeyOf(c)))
                /\ c.num_sources <= 3
                /\ \A i, j \in 1..Len(c.all_sources) :
                      c.all_sources[i] = c.all_sources[j] => i = j

\* The first candidate with key k whose likelihood no other one exceeds
Representative(k) ==
    LET cs == Contributors(k)
    IN  cs[CHOOSE i \in 1..Len(cs) :
               /\ \A j \in 1..Len(cs) : ~QLess(cs[i].likelihood, cs[j].likelihood)
               /\ \A j \in 1..(i - 1) : QLess(cs[j].likelihood, cs[i].likelihood)]

\* The fields a merged candidate takes over from a contributing candidate
Metadata(c) ==
    [f \in DOMAIN c \ {"merged_likelihood", "num_sources", "all_sources"} |-> c[f]]

(* C15: the representative metadata of every merged candidate (name, taxid, *)
(* source, auxiliary metrics) is that of the contributing candidate with    *)
(* the highest likelihood, the first one encountered when several share it. *)
C15_RepresentativeMetadata ==
    Merged =>
        \A m \in 1..N :
            Metadata(candidates[m]) = Representative(KeyOf(candidates[m]))

\* Two contributors with the same highest likelihood and different metadata
C15_Witness ==
    /\ Merged /\ N = 1
    /\ LET cs == Contributors(KeyOf(candidates[1]))
       IN  /\ Len(cs) = 2
           /\ cs[1].likelihood = cs[2].likelihood
           /\ cs[1] # cs[2]
           /\ Metadata(candidates[1]) = cs[1]

\* The identity keys of the raw candidates, in input order
Keys == [i \in 1..Len(all_candidates) |-> KeyOf(all_candidates[i])]

\* The positions at which a key appears for the first time
FirstAppearances ==
    {i \in 1..Len(all_candidates) :
        ~Falsy(Keys[i]) /\ \A j \in 1..(i - 1) : Keys[j] # Keys[i]}

\* Position of a source in main()'s fixed sequence
SourceRank(source) ==
    CASE source = "kraken2" -> 1 [] source = "blast" -> 2 [] source = "fastani" -> 3

(* C16: the merged list has exactly one candidate per distinct identity    *)
(* key of the raw list, in the order of the keys' first appearance, and the *)
(* raw list holds the read-classifier candidates first, then the pairwise-  *)
(* alignment ones, then the genome-similarity ones.                         *)
C16_OnePerKeyInFirstAppearanceOrder ==
    /\ Merged =>
          /\ N = Cardinality(FirstAppearances)
          /\ \A i \in FirstAppearances :
                LET m == Cardinality({j \in FirstAppearances : j <= i})
                IN  KeyOf(candidates[m]) = Keys[i]
    /\ \A i, j \in 1..Len(all_candidates) :
          i < j => SourceRank(all_candidates[i].source)
                       <= SourceRank(all_candidates[j].source)

\* Two keys, the first from the read classifier, the second from a later source
C16_Witness ==
    /\ Merged /\ N = 2 /\ Len(all_candidates) = 2
    /\ all_candidates[1].source = "kraken2"
    /\ all_candidates[2].source # "kraken2"
    /\ KeyOf(candidates[1]) = Keys[1]
    /\ KeyOf(candidates[2]) = Keys[2]

-----------------------------------------------------------------------------
(* Candidate extractors                                                    *)

Sources == {"kraken2", "blast", "fastani"}

\* main() has called the extractor of source s
Parsed(s) ==
    CASE s = "kraken2" -> pc \notin {"parse_args", "exited", "kraken2"}
      [] s = "blast"   -> pc \notin {"parse_args", "exited", "kraken2", "blast"}
      [] s = "fastani" -> pc \notin {"parse_args", "exited", "kraken2", "blast", "fastani"}

\* The rows of the file of source s
RowsOf(s) == IF files[s].status = "ok" THEN files[s].rows ELSE <<>>

\* The raw candidates of source s, in extraction order
SourceCandidates(s) == SelectSeq(all_candidates, LAMBDA c : c.source = s)

\* A row with enough fields, whose numeric fields can all be used
WellFormed(s, r) ==
    CASE s = "kraken2" -> Len(r) >= 5 /\ (r[4] = "" \/ IsFloat(r[4]))
      [] s = "blast"   -> /\ Len(r) >= 6
                          /\ IsFloat(r[3]) /\ IsInt(r[4]) /\ IsFloat(r[5]) /\ IsFloat(r[6])
                          /\ FloatOf[r[3]] # Q(-1, 1)
      [] s = "fastani" -> /\ Len(r) >= 5
                          /\ IsFloat(r[3]) /\ IsInt(r[4]) /\ IsInt(r[5])
                          /\ IntOf[r[5]] # 0

\* The value of a well-formed row that is compared with the threshold:
\* confidence, percent identity, percent similarity
Measured(s, r) ==
    CASE s = "kraken2" -> IF r[4] = "" THEN Q(0, 1) ELSE FloatOf[r[4]]
      [] s = "blast"   -> FloatOf[r[6]]
      [] s = "fastani" -> FloatOf[r[3]]

ThresholdOf(s) ==
    CASE s = "kraken2" -> args.min_kraken2_confidence
      [] s = "blast"   -> args.min_blast_identity
      [] s = "fastani" -> args.min_ani_similarity

\* A well-formed row that meets the inclusive threshold of its source
Qualifies(s, r) ==
    /\ WellFormed(s, r)
    /\ s = "kraken2" => r[1] = "C"
    /\ ~QLess(Measured(s, r), ThresholdOf(s))

QualifyingRows(s) == SelectSeq(RowsOf(s), LAMBDA r : Qualifies(s, r))

(* C17: a malformed row is skipped and parsing continues: a well-formed     *)
(* qualifying row that comes after a malformed row of the same file still   *)
(* yields its candidate, so the source has at least as many candidates as   *)
(* the file has qualifying rows up to that row.                             *)
C17_MalformedRowsSkipped ==
    \A s \in Sources :
        Parsed(s) =>
            \A j \in 1..Len(RowsOf(s)) :
                (/\ Qualifies(s, RowsOf(s)[j])
                 /\ \E i \in 1..(j - 1) : ~WellFormed(s, RowsOf(s)[i]))
                => Len(SourceCandidates(s))
                       >= Cardinality({k \in 1..j : Qualifies(s, RowsOf(s)[k])})

(* C18: a missing or unreadable file gives no candidate of its source and   *)
(* a warning for that source.                                               *)
C18_MissingFileWarns ==
    \A s \in Sources :
        (Parsed(s) /\ files[s].status \in {"missing", "unreadable"})
        => /\ SourceCandidates(s) = <<>>
           /\ \E i \in 1..Len(warnings) : warnings[i] = s

\* The field of a raw candidate that holds the value compared with the threshold
MeasuredField(c) ==
    CASE c.source = "kraken2" -> c.confidence
      [] c.source = "blast"   -> c.identity
      [] c.source = "fastani" -> c.ani

(* C19: a well-formed row yields a candidate exactly when it meets the      *)
(* inclusive threshold of its source (and, for the read classifier, is      *)
(* flagged 'C'): the candidates of a source are those of the qualifying     *)
(* rows of its file, one each, in order.                                    *)
C19_KeptIffThreshold ==
    \A s \in Sources :
        Parsed(s) =>
            /\ Len(SourceCandidates(s)) = Len(QualifyingRows(s))
            /\ \A i \in 1..Len(SourceCandidates(s)) :
                  MeasuredField(SourceCandidates(s)[i]) = Measured(s, QualifyingRows(s)[i])

\* The likelihood of the candidate of a qualifying row, from the row's fields
RowLikelihoodIs(s, r, l) ==
    CASE s = "kraken2" -> l = Measured(s, r)
      [] s = "blast"   -> QMul(l, QMul(Q(100, 1), QAdd(Q(1, 1), FloatOf[r[3]])))
                              = FloatOf[r[6]]
      [] s = "fastani" -> QMul(l, Q(100 * IntOf[r[5]], 1))
                              = QMul(FloatOf[r[3]], Q(IntOf[r[4]], 1))

(* C20: the likelihood of a kept candidate is the confidence for a read-    *)
(* classifier row, (identity / 100) / (1 + e-value) for a pairwise-         *)
(* alignment row and (similarity / 100) * (aligned / total fragments) for a *)
(* genome-similarity row; similarity 96 with 90 of 100 fragments gives      *)
(* 0.864.  The candidates of a source are those of the first qualifying     *)
(* rows of its file, in order.                                              *)
C20_LikelihoodFormulas ==
    \A s \in Sources :
        Parsed(s) =>
            /\ Len(SourceCandidates(s)) <= Len(QualifyingRows(s))
            /\ \A i \in 1..Len(SourceCandidates(s)) :
                  LET c == SourceCandidates(s)[i]
                      r == QualifyingRows(s)[i]
                  IN  /\ MeasuredField(c) = Measured(s, r)
                      /\ RowLikelihoodIs(s, r, c.likelihood)
                      /\ (s = "fastani" /\ SubSeq(r, 3, 5) = <<"96", "90", "100">>)
                            => c.likelihood = Q(108, 125)

\* Scenario C next to a pairwise-alignment hit with a non-zero e-value
C20_Witness ==
    /\ Parsed("fastani")
    /\ Len(SourceCandidates("blast")) = 1
    /\ SourceCandidates("blast")[1].evalue = Q(1, 2)
    /\ SourceCandidates("blast")[1].likelihood = Q(3, 5)
    /\ Len(SourceCandidates("fastani")) = 1
    /\ SourceCandidates("fastani")[1].ani = Q(96, 1)
    /\ SourceCandidates("fastani")[1].likelihood = Q(108, 125)

-----------------------------------------------------------------------------
(* main() as a whole                                                       *)

\* main() has ended after parse_args returned: it wrote its outputs, or an
\* exception left it
Ended == pc \in {"written", "raised"}

\* The three output files exist, the table with its header and one data row
AllWritten ==
    /\ Len(outputs.csv) = 2
    /\ outputs.csv[1] = CsvHeader
    /\ Len(outputs.json) = 1
    /\ outputs.combined # <<>>

(* C21: every invocation whose identifiers were accepted ends with all      *)
(* three outputs written (the table with exactly one data row), the merged  *)
(* candidate list being empty or not.                                       *)
C21_MainWritesAllOutputs == Ended => AllWritten

(* C22: the sample id and the cluster id are accepted whatever their value  *)
(* and appear in the three outputs exactly as they were given.              *)
C22_IdentifiersEchoed ==
    /\ pc # "exited"
    /\ pc = "written" =>
          /\ outputs.csv[2][1] = argv.sample_id
          /\ outputs.csv[2][2] = argv.cluster_id
          /\ outputs.json[1].meta.id = argv.sample_id
          /\ ToString(outputs.json[1].meta.cluster_id) = argv.cluster_id
          /\ outputs.combined[2]
                = "Sample: " \o argv.sample_id \o ", Cluster: " \o argv.cluster_id

\* The step is taken by merge_candidates, by run_em_algorithm (each loop body
\* is one em_step), by determine_classification
ByMerge == pc = "merge"
ByEM == pc \in {"em_start", "em_loop"}
ByDecision == pc = "decide"

-----------------------------------------------------------------------------
(* The EM run as a state machine                                           *)

\* Every entry of the table is 1/N
IsUniform(t) ==
    /\ Len(t.num) = N
    /\ \A i \in 1..N : BMul(BN(N), t.num[i]) = t.den

\* A loop body ran, with the convergence test of its result
Iterated ==
    /\ iteration' = iteration + 1
    /\ IF RLess(MaxChange(posteriors', priors), convergence_threshold)
       THEN /\ pc' = "decide"
            /\ em_result' = [posteriors |-> posteriors', iterations |-> iteration',
                             converged |-> TRUE]
       ELSE /\ pc' = "em_loop"
            /\ priors' = posteriors'

\* The run ended at the cap
MaxIterationsReached ==
    /\ iteration = max_iterations
    /\ iteration' = iteration
    /\ pc' = "decide"
    /\ em_result' = [posteriors |-> posteriors, iterations |-> max_iterations,
                     converged |-> FALSE]

(* C24: the run starts from the uniform prior 1/N; every step of the loop  *)
(* is an iteration that either meets the convergence test and returns its   *)
(* posterior, its number and converged = true, or adopts its posterior as   *)
(* the next prior, or the step ends the run at the cap; the run ends in one *)
(* of the two terminal states and iterates no more after it.                *)
C24_EmStateMachine ==
    [][/\ (pc = "em_start" /\ N >= 1) => (pc' = "em_loop" /\ IsUniform(priors'))
       /\ pc = "em_loop" => (Iterated \/ MaxIterationsReached)
       /\ Returned => (iteration' = iteration /\ em_result' = em_result)]_vars

\* The sum of likelihood * prior over the candidates is 0 (no term is
\* negative, so every term is 0)
TotalIsZero(prior) ==
    /\ N >= 1
    /\ \A i \in 1..N : Likelihoods[i].n = 0 \/ prior.num[i] = <<>>

(* C25: when the sum of likelihood * prior is 0, em_step returns the       *)
(* uniform posterior 1/N, and a run whose products sum to 0, with a         *)
(* positive convergence threshold and max_iterations >= 1, returns after 1  *)
(* iteration, converged, with the uniform posterior.                        *)
C25_ZeroTotalFallsBackToUniform ==
    /\ (pc = "em_loop" /\ TotalIsZero(priors))
          => IsUniform(em_step(candidates, priors))
    /\ (Returned /\ TotalIsZero(initialize_priors(candidates))
           /\ convergence_threshold.n > 0 /\ max_iterations >= 1)
          => /\ em_result.iterations = 1
             /\ em_result.converged
             /\ IsUniform(em_result.posteriors)

\* Three candidates of likelihood 0, at the default threshold
C25_Witness ==
    /\ Returned /\ N = 3
    /\ \A i \in 1..N : Likelihoods[i] = Q(0, 1)
    /\ convergence_threshold = DefaultConvergence
    /\ max_iterations >= 2
    /\ em_result.iterations = 1
    /\ em_result.converged
    /\ IsUniform(em_result.posteriors)

-----------------------------------------------------------------------------
(* A single candidate                                                      *)

(* C27: with exactly one merged candidate, whatever its merged likelihood  *)
(* (0 included), the returned posterior is 1.0; with a positive threshold   *)
(* and max_iterations >= 1 the run converges at iteration 1; the tier is    *)
(* 'high' and is_novel is false for every novelty_threshold <= 1.           *)
C27_SingleCandidate ==
    (N = 1 /\ Returned) =>
        /\ Len(em_result.posteriors.num) = 1
        /\ IsOne(Entry(em_result.posteriors, 1))
        /\ (convergence_threshold.n > 0 /\ max_iterations >= 1)
              => (em_result.converged /\ em_result.iterations = 1)
        /\ Decided =>
              /\ result.best_idx = 1
              /\ IsOne(WinningPosterior)
              /\ Tier = "high"
              /\ novelty_threshold.n <= novelty_threshold.d => ~result.is_novel

\* One candidate of likelihood 0, decided at the novelty threshold 1
C27_Witness ==
    /\ Decided /\ N = 1
    /\ Likelihoods[1] = Q(0, 1)
    /\ convergence_threshold.n > 0
    /\ novelty_threshold = Q(1, 1)
    /\ em_result.converged /\ em_result.iterations = 1
    /\ Tier = "high"
    /\ ~result.is_novel

-----------------------------------------------------------------------------
(* The iterates in closed form                                             *)

\* a^k
RECURSIVE BPow(_, _)
BPow(a, k) == IF k = 0 THEN BN(1) ELSE BMul(a, BPow(a, k - 1))

\* The merged likelihoods over their common denominator: the numerators
ScaledLikelihoods ==
    LET ld == LCMOfDens(candidates, 1)
    IN  [i \in 1..N |-> BN(Likelihoods[i].n * (ld \div Likelihoods[i].d))]

\* The table t is the normalised k-th powers of the merged likelihoods:
\* t[i] * sum_j L[j]^k = L[i]^k  (the common denominator cancels)
IsNormalisedPowers(t, k) ==
    LET pw  == [i \in 1..N |-> BPow(ScaledLikelihoods[i], k)]
        tot == BSum(pw)
    IN  /\ Len(t.num) = N
        /\ \A i \in 1..N : BMul(t.num[i], tot) = BMul(pw[i], t.den)

PositiveSum ==
    /\ N >= 1
    /\ \A i \in 1..N : Likelihoods[i].n >= 0
    /\ \E i \in 1..N : Likelihoods[i].n > 0

(* C28: for N >= 1 with a strictly positive sum of merged likelihoods, the *)
(* posterior after k >= 1 iterations is L[i]^k / sum_j L[j]^k; a candidate  *)
(* of merged likelihood 0 has posterior 0 from the first iteration on, and  *)
(* candidates of equal merged likelihood have equal posteriors at every     *)
(* iteration.                                                               *)
C28_PosteriorIsNormalisedPowers ==
    (PositiveSum /\ posteriors_bound) =>
        /\ iteration >= 1
        /\ IsNormalisedPowers(posteriors, iteration)
        /\ \A i \in 1..N : Likelihoods[i].n = 0 => posteriors.num[i] = <<>>
        /\ \A i, j \in 1..N :
              Likelihoods[i] = Likelihoods[j] => posteriors.num[i] = posteriors.num[j]
        /\ Returned => /\ em_result.posteriors = posteriors
                       /\ em_result.iterations = iteration

\* Likelihoods 1/4, 0, 1/2 after three iterations: posterior 1/9, 0, 8/9
C28_Witness ==
    /\ posteriors_bound /\ N = 3 /\ iteration = 3
    /\ Likelihoods = <<Q(1, 4), Q(0, 1), Q(1, 2)>>
    /\ BMul(BN(9), posteriors.num[1]) = posteriors.den
    /\ posteriors.num[2] = <<>>
    /\ BMul(BN(9), posteriors.num[3]) = BMul(BN(8), posteriors.den)

-----------------------------------------------------------------------------
(* What run_em_algorithm returns                                           *)

\* The maximum change of the last loop body was below the threshold
LastStepBelowThreshold == RLess(last_change, convergence_threshold)

(* C29: whenever run_em_algorithm returns for N >= 1, iterations >= 1; if  *)
(* converged, 1 <= iterations <= max_iterations and the maximum change of   *)
(* the last step is below the threshold; if not converged, iterations =     *)
(* max_iterations and no step had a maximum change below the threshold      *)
(* (every step the loop continued after was not below it, nor was the       *)
(* last).  iterations = 0 is returned only for N = 0.                       *)
C29_ReturnedIterations ==
    /\ (Returned /\ N >= 1) =>
          /\ em_result.iterations >= 1
          /\ em_result.iterations = iteration
          /\ em_result.converged =>
                /\ em_result.iterations <= max_iterations
                /\ LastStepBelowThreshold
          /\ ~em_result.converged =>
                /\ em_result.iterations = max_iterations
                /\ ~LastStepBelowThreshold
    /\ (pc = "em_loop" /\ posteriors_bound) => ~LastStepBelowThreshold
    /\ (Returned /\ em_result.iterations = 0) => N = 0

\* Two candidates whose third step still moves by the threshold or more
C29_Witness ==
    /\ Returned /\ N = 2
    /\ convergence_threshold.n > 0
    /\ ~em_result.converged
    /\ em_result.iterations = 3
    /\ max_iterations = 3
    /\ ~LastStepBelowThreshold

-----------------------------------------------------------------------------
(* Novelty flag and tier                                                   *)

(* C30: for N >= 1 and every novelty_threshold <= 0.7, is_novel is true    *)
(* exactly when the tier is 'very_low_novel', so a result flagged novel     *)
(* never carries the tier 'high', 'medium' or 'low'.                        *)
C30_NovelIffVeryLow ==
    (Decided /\ N >= 1 /\ ~QLess(Q(7, 10), novelty_threshold)) =>
        /\ result.is_novel <=> (Tier = "very_low_novel")
        /\ result.classification.is_novel <=> (Tier = "very_low_novel")
        /\ result.is_novel => Tier \notin {"high", "medium", "low"}

\* Posteriors 4/7, 2/7, 1/7 against the threshold 0.6: novel and
\* 'very_low_novel'
C30_Witness ==
    /\ Decided /\ N = 3
    /\ novelty_threshold = Q(3, 5)
    /\ RGeq(WinningPosterior, Q(1, 2))
    /\ result.is_novel
    /\ Tier = "very_low_novel"

-----------------------------------------------------------------------------
(* The winner against the plain argmax over merged likelihoods             *)

\* The merged likelihoods of the binary64 run
Likelihoods64 == [i \in 1..N |-> candidates[i].merged_likelihood]

(* C26: for N >= 1, non-negative merged likelihoods and max_iterations >=  *)
(* 1, whatever the number of iterations performed and the threshold, the    *)
(* winning index chosen from the final posterior is the first index holding *)
(* the maximum merged likelihood.                                           *)
C26_WinnerIsFirstMaximumLikelihood ==
    (pc = "done" /\ N >= 1 /\ max_iterations >= 1) =>
        result.best_idx = BestIdx64(Likelihoods64)

====
